---- MODULE Spec2Model ----
(***************************************************************************)
(* Design-token pipeline: the webhook listener (webhook-server.js), the    *)
(* command-line adapters (FigmaSync, FigmaFileSync, EnhancedFigmaSync),    *)
(* the hand-written renderers (SwiftTokenGenerator, PluginSync), the Figma *)
(* plugin, and the functions the adapters share: colour conversion, name   *)
(* sanitization, category classification and value conversion.             *)
(*                                                                         *)
(* The specifications share the variables:                                 *)
(*   Spec           the webhook listener with its child processes,         *)
(*   SpecCli        one command-line invocation after another,             *)
(*   SpecColor      colorToHex applied to a bounded set of COLOR values,   *)
(*   SpecClassify   a variable classified and its value converted by the   *)
(*                  plugin and by FigmaSync,                               *)
(*   SpecName       a name sanitized, and sanitized again,                 *)
(*   SpecRender     generateAll's text for a bounded set of token stores,  *)
(*   SpecTransform  an adapter's loop over variables or styles,            *)
(*   SpecPlugin     the plugin's export to GitHub, one message at a time.  *)
(***************************************************************************)
EXTENDS Integers, Sequences, FiniteSets, TLC

VARIABLES
    store,      \* tokens/figma-tokens.json of the working copy: Absent or a content
    gen,        \* the generated Swift files: file index -> Absent or the content rendered
    pc,         \* webhook handler -> "idle" | "pull" | "regen" | "done"
    event,      \* webhook handler -> the event field of its request body
    log,        \* webhook handler -> the shell commands it started / saw finish
    resp,       \* webhook handler -> the HTTP response it sent
    child,      \* webhook handler -> the child process exec() spawned for it
    cli,        \* the command-line process
    colorIn,    \* the COLOR value handed to colorToHex
    colorOut,   \* what colorToHex returned for it
    nameIn,     \* the name of a Figma variable
    typeIn,     \* its resolvedType
    catOut,     \* the category each classifying adapter gave it
    nameOut,    \* what each sanitizer made of the name, one entry per pass
    valueIn,    \* a value the variable holds for a mode
    valueOut,   \* what each adapter's conversion made of that value
    parsed,     \* the token store as a renderer parsed it
    swift,      \* what that renderer's generateAll wrote
    xf,         \* an adapter's transformation: where its loops are
    collected,  \* the tokens that transformation has collected so far
    plug        \* the Figma plugin handling an 'export-to-github' message

vars == <<store, gen, pc, event, log, resp, child, cli, colorIn, colorOut,
          nameIn, typeIn, catOut, nameOut, valueIn, valueOut, parsed, swift,
          xf, collected, plug>>

fsVars    == <<store, gen>>
hookVars  == <<pc, event, log, resp, child>>
colorVars == <<colorIn, colorOut>>
nameVars  == <<nameIn, typeIn, catOut, nameOut, valueIn, valueOut>>
\* what the webhook listener, the command-line programs and colorToHex leave alone
renderVars == <<parsed, swift>>
xfVars    == <<xf, collected>>
restVars  == <<nameVars, renderVars, xfVars, plug>>

----------------------------------------------------------------------------
(* Bounds *)

NumRequests == 2     \* webhook notifications in flight
MaxContent  == 2     \* distinct contents the token store can take
ChannelDen  == 20    \* a colour channel is k / ChannelDen, k in 0..ChannelDen
AlphaDen    == 2     \* an alpha is k / AlphaDen, k in 0..AlphaDen

Handlers == 1..NumRequests
Contents == 1..MaxContent
Absent   == 0        \* the file does not exist

----------------------------------------------------------------------------
(* The renderer: SwiftTokenGenerator / PluginSync *)

\* generateAll's list of files, in the order it writes them
Files == <<"Colors.swift", "Typography.swift", "Spacing.swift",
           "BorderRadius.swift", "Shadows.swift">>

FileIds == 1..Len(Files)

\* loadTokens: process.exit(1) when the token store file does not exist,
\* otherwise the parsed content of the file
loadTokensNoCheck(st) == [exit |-> FALSE, tokens |-> st]
loadTokens(st) ==
    IF st = Absent THEN [exit |-> TRUE, tokens |-> Absent]
                   ELSE [exit |-> FALSE, tokens |-> st]

\* fs.writeFileSync(filePath, content) of generateAll's forEach, file i
writeGenerated(g, i, tokens) == [g EXCEPT ![i] = tokens]

\* A renderer process: where it is, the tokens it loaded, the next file to write.
\* st: "off" | "load" | "write" | "exit0" | "exit1"
NoProc == [cmd |-> "none", st |-> "off", tokens |-> Absent, next |-> 1]

\* The files a renderer process has written so far (generateAll writes in order)
Written(p) == 1..(p.next - 1)

\* the constructor (loadTokens) and the in-memory generate* calls of generateAll;
\* `generated` is FALSE when JSON.parse or a generate* method throws, which ends
\* the process with a non-zero status before the first write
RendererLoad(p, st, generated) ==
    LET l == loadTokens(st) IN
    IF l.exit \/ ~generated
        THEN [p EXCEPT !.st = "exit1"]
        ELSE [p EXCEPT !.st = "write", !.tokens = l.tokens, !.next = 1]

\* one iteration of files.forEach in generateAll: `written` is FALSE when
\* fs.writeFileSync throws, which ends the process with a non-zero status;
\* after the last file the process ends with status 0
RendererWriteStopsEarly(p, written) ==
    [p EXCEPT !.st = "exit0", !.tokens = Absent,
              !.next = IF written THEN p.next + 1 ELSE p.next]
RendererWrite(p, written) ==
    IF ~written
        THEN [p EXCEPT !.st = "exit1", !.tokens = Absent]
        ELSE IF p.next = Len(Files)
            THEN [p EXCEPT !.st = "exit0", !.tokens = Absent, !.next = p.next + 1]
            ELSE [p EXCEPT !.next = p.next + 1]

Exited(p) == p.st \in {"exit0", "exit1"}

----------------------------------------------------------------------------
(* The webhook listener: app.post('/figma-webhook') and executeCommand *)

TokensUpdated == "tokens_updated"
Events == {TokensUpdated, "other", "undefined"}   \* "undefined": no event field

NoResp      == [status |-> 0,   success |-> "unset", text |-> "unset"]
IgnoredResp == [status |-> 200, success |-> "unset", text |-> "Event ignored"]
SuccessResp == [status |-> 200, success |-> "true",  text |-> "Tokens updated successfully"]
\* error.message of the error exec() hands to its callback
ErrorMessage(cmd) == "Command failed: " \o cmd
ErrorResp(cmd) == [status |-> 500, success |-> "false", text |-> ErrorMessage(cmd)]

PullCmd  == "git pull origin main"
RegenCmd == "cd scripts && npm run generate-swift"

\* executeCommand(command): exec() starts a child process
Spawn(cmd) == [cmd |-> cmd, st |-> IF cmd = RegenCmd THEN "load" ELSE "run",
               tokens |-> Absent, next |-> 1]

\* Express dispatches every request to the handler at once: nothing in the
\* handler waits for another request to finish
AcceptsSingleFlight(h) ==
    /\ pc[h] = "idle"
    /\ \A g \in Handlers : pc[g] \in {"idle", "done"}
Accepts(h) == pc[h] = "idle"

\* if (event !== 'tokens_updated')
IgnoresNothing(e) == FALSE
Ignores(e) == e # TokensUpdated

\* the handler from its entry to its first await
ReceiveNoAwait(h, e) ==
    /\ Accepts(h)
    /\ event' = [event EXCEPT ![h] = e]
    /\ IF Ignores(e)
         THEN /\ resp' = [resp EXCEPT ![h] = IgnoredResp]
              /\ pc' = [pc EXCEPT ![h] = "done"]
              /\ UNCHANGED <<log, child>>
         ELSE /\ pc' = [pc EXCEPT ![h] = "regen"]
              /\ child' = [child EXCEPT ![h] = Spawn(RegenCmd)]
              /\ log' = [log EXCEPT ![h] = @ \o << <<PullCmd, "start">>, <<RegenCmd, "start">> >>]
              /\ UNCHANGED resp
    /\ UNCHANGED <<fsVars, cli, colorVars, restVars>>
Receive(h, e) ==
    /\ Accepts(h)
    /\ event' = [event EXCEPT ![h] = e]
    /\ IF Ignores(e)
         THEN /\ resp' = [resp EXCEPT ![h] = IgnoredResp]
              /\ pc' = [pc EXCEPT ![h] = "done"]
              /\ UNCHANGED <<log, child>>
         ELSE /\ pc' = [pc EXCEPT ![h] = "pull"]
              /\ child' = [child EXCEPT ![h] = Spawn(PullCmd)]
              /\ log' = [log EXCEPT ![h] = Append(@, <<PullCmd, "start">>)]
              /\ UNCHANGED resp
    /\ UNCHANGED <<fsVars, cli, colorVars, restVars>>

\* what the handler does when `await executeCommand('git pull origin main')`
\* settles: on resolve it starts the regenerate command, on reject the catch
\* block answers 500
AfterPullIgnoresFailure(h, ok) ==
    /\ pc' = [pc EXCEPT ![h] = "regen"]
    /\ child' = [child EXCEPT ![h] = Spawn(RegenCmd)]
    /\ log' = [log EXCEPT ![h] = @ \o << <<PullCmd, IF ok THEN "exit0" ELSE "exit1">>,
                                         <<RegenCmd, "start">> >>]
    /\ UNCHANGED resp
AfterPull(h, ok) ==
    IF ok
      THEN /\ pc' = [pc EXCEPT ![h] = "regen"]
           /\ child' = [child EXCEPT ![h] = Spawn(RegenCmd)]
           /\ log' = [log EXCEPT ![h] = @ \o << <<PullCmd, "exit0">>, <<RegenCmd, "start">> >>]
           /\ UNCHANGED resp
      ELSE /\ pc' = [pc EXCEPT ![h] = "done"]
           /\ child' = [child EXCEPT ![h].st = "exit1"]
           /\ log' = [log EXCEPT ![h] = Append(@, <<PullCmd, "exit1">>)]
           /\ resp' = [resp EXCEPT ![h] = ErrorResp(PullCmd)]

\* the child process of 'git pull origin main' ends and exec() calls back: it
\* has brought the working copy to the remote's content c (exit status 0), or
\* it has failed and left the working copy alone (non-zero status)
PullExit(h, c, ok) ==
    /\ pc[h] = "pull"
    /\ child[h].cmd = PullCmd /\ child[h].st = "run"
    /\ store' = IF ok THEN c ELSE store
    /\ AfterPull(h, ok)
    /\ UNCHANGED <<gen, event, cli, colorVars, restVars>>

\* what the handler does when `await executeCommand('cd scripts && ...')` settles
RegenResponse(st) == IF st = "exit0" THEN SuccessResp ELSE ErrorResp(RegenCmd)

\* exec()'s callback once the regenerate child p has ended; nothing while it runs
AfterRegen(h, p) ==
    IF Exited(p)
      THEN /\ pc' = [pc EXCEPT ![h] = "done"]
           /\ log' = [log EXCEPT ![h] = Append(@, <<RegenCmd, p.st>>)]
           /\ resp' = [resp EXCEPT ![h] = RegenResponse(p.st)]
      ELSE UNCHANGED <<pc, log, resp>>

\* the child process of 'cd scripts && npm run generate-swift': the renderer
RegenLoad(h, generated) ==
    /\ pc[h] = "regen"
    /\ child[h].cmd = RegenCmd /\ child[h].st = "load"
    /\ LET p == RendererLoad(child[h], store, generated) IN
         /\ child' = [child EXCEPT ![h] = p]
         /\ AfterRegen(h, p)
    /\ UNCHANGED <<fsVars, event, cli, colorVars, restVars>>

RegenWrite(h, written) ==
    /\ pc[h] = "regen"
    /\ child[h].cmd = RegenCmd /\ child[h].st = "write"
    /\ gen' = IF written THEN writeGenerated(gen, child[h].next, child[h].tokens)
                         ELSE gen
    /\ LET p == RendererWrite(child[h], written) IN
         /\ child' = [child EXCEPT ![h] = p]
         /\ AfterRegen(h, p)
    /\ UNCHANGED <<store, event, cli, colorVars, restVars>>

----------------------------------------------------------------------------
(* The command-line programs: the three adapters and the two renderers *)

Adapters  == {"FigmaSync", "FigmaFileSync", "EnhancedFigmaSync"}
Renderers == {"SwiftTokenGenerator", "PluginSync"}

\* process.env.FIGMA_ACCESS_TOKEN / FIGMA_FILE_KEY: unset, empty or set
EnvValues == {"undefined", "", "figd_x"}

\* JavaScript's !v for a string or undefined
Falsy(v) == v = "undefined" \/ v = ""

\* the constructors' test: if (!this.accessToken || !this.fileKey)
MissingCredentialsTokenOnly(token, key) == Falsy(token)
MissingCredentials(token, key) == Falsy(token) \/ Falsy(key)

\* how the adapter's HTTP request and the work on its answer can end:
\*   "ok"             a 2xx answer the transformation accepts
\*   "network_error"  axios.get rejects without a response
\*   "non2xx"         axios.get rejects with error.response
\*   "malformed"      a 2xx answer on which the code after the request throws
FetchOutcomes == {"ok", "network_error", "non2xx", "malformed"}

\* run(): saveTokens is reached only when fetch* returned (its catch block
\* calls process.exit(1)) and the transformation did not throw (run's catch
\* block calls process.exit(1))
SavesTokensAnyway(outcome) == TRUE
SavesTokens(outcome) == outcome = "ok"

\* the status the adapter process ends with
AdapterExitCode(outcome) == IF outcome = "ok" THEN 0 ELSE 1

\* saveTokens: fs.writeFileSync(TOKENS_OUTPUT_PATH, JSON.stringify(output, null, 2))
\* replaces whatever the file held by the tokens of this run
saveTokensMerging(st, tokens) == IF st = Absent THEN tokens ELSE st
saveTokens(st, tokens) == tokens

\* the command-line process: nothing is running
NoCli == [kind |-> "none", pc |-> "idle", token |-> "undefined", key |-> "undefined",
          code |-> 0, requests |-> 0, writes |-> 0, fetched |-> "none",
          output |-> Absent, proc |-> NoProc]

\* `new FigmaSync()` (or FigmaFileSync, EnhancedFigmaSync) followed by run() up
\* to its first await, the axios.get inside fetchVariables / fetchFileContent
CliStartAdapter(kind, token, key) ==
    /\ cli.pc = "idle"
    /\ cli' = IF MissingCredentials(token, key)
                THEN [NoCli EXCEPT !.kind = kind, !.token = token, !.key = key,
                                   !.pc = "exited", !.code = 1]
                ELSE [NoCli EXCEPT !.kind = kind, !.token = token, !.key = key,
                                   !.pc = "fetching", !.requests = 1]
    /\ UNCHANGED <<fsVars, hookVars, colorVars, restVars>>

\* the request settles and run() goes on to its end: the transformation,
\* whose tokens are c, and saveTokens' single fs.writeFileSync, or process.exit(1)
CliFetchReturn(outcome, c) ==
    /\ cli.pc = "fetching"
    /\ store' = IF SavesTokens(outcome) THEN saveTokens(store, c) ELSE store
    /\ cli' = [cli EXCEPT !.pc = "exited", !.fetched = outcome,
                          !.code = AdapterExitCode(outcome),
                          !.output = IF outcome = "ok" THEN c ELSE Absent,
                          !.writes = IF SavesTokens(outcome) THEN @ + 1 ELSE @]
    /\ UNCHANGED <<gen, hookVars, colorVars, restVars>>

\* the status a renderer process that has ended hands to its parent
RendererExitCode(p) == IF p.st = "exit0" THEN 0 ELSE 1

CliAfterRenderer(kind, p) ==
    [NoCli EXCEPT !.kind = kind, !.proc = p,
                  !.pc = IF Exited(p) THEN "exited" ELSE "render",
                  !.code = IF Exited(p) THEN RendererExitCode(p) ELSE 0]

\* `new SwiftTokenGenerator()` (or PluginSync) and generateAll up to its writes
CliStartRenderer(kind, generated) ==
    /\ cli.pc = "idle"
    /\ cli' = CliAfterRenderer(kind, RendererLoad(Spawn(RegenCmd), store, generated))
    /\ UNCHANGED <<fsVars, hookVars, colorVars, restVars>>

\* one iteration of generateAll's files.forEach
CliRenderWrite(written) ==
    /\ cli.pc = "render"
    /\ gen' = IF written THEN writeGenerated(gen, cli.proc.next, cli.proc.tokens)
                         ELSE gen
    /\ cli' = CliAfterRenderer(cli.kind, RendererWrite(cli.proc, written))
    /\ UNCHANGED <<store, hookVars, colorVars, restVars>>

\* the process is gone; the operator may run the next command
CliNextInvocation ==
    /\ cli.pc = "exited"
    /\ cli' = NoCli
    /\ UNCHANGED <<fsVars, hookVars, colorVars, restVars>>

----------------------------------------------------------------------------
(* colorToHex: the COLOR conversion of the adapters *)

\* A COLOR value as the adapters receive it: null, a value that is no object,
\* or an object {r, g, b, a} whose channels are the fractions r / ChannelDen,
\* g / ChannelDen, b / ChannelDen and whose alpha, when it has one, is a / AlphaDen
ColorObjects ==
    [type : {"object"}, r : 0..ChannelDen, g : 0..ChannelDen, b : 0..ChannelDen,
     hasA : {TRUE}, a : 0..AlphaDen]
    \cup [type : {"object"}, r : 0..ChannelDen, g : 0..ChannelDen, b : 0..ChannelDen,
          hasA : {FALSE}, a : {0}]

NonObjects == [type : {"null", "string"}, r : {0}, g : {0}, b : {0}, hasA : {FALSE}, a : {0}]

ColorInputs == ColorObjects \cup NonObjects

NoColor == [type |-> "none", r |-> 0, g |-> 0, b |-> 0, hasA |-> FALSE, a |-> 0]

\* Text is a sequence of pieces: characters, the literal parts of a template
\* string, the digits of a number (a sequence of characters) and, for a number
\* that is not an integer, the number itself
NotComputed == <<>>
Null == <<"null">>

Digits == <<"0", "1", "2", "3", "4", "5", "6", "7", "8", "9",
            "a", "b", "c", "d", "e", "f">>

\* Math.round of the fraction num / den: the nearest integer, a tie going up
MathRound(num, den) == (2 * num + den) \div (2 * den)

\* Number.prototype.toString(radix) of a non-negative integer
RECURSIVE toString(_, _)
toString(n, radix) ==
    IF n < radix THEN <<Digits[n + 1]>>
                 ELSE toString(n \div radix, radix) \o <<Digits[(n % radix) + 1]>>

\* String.prototype.padStart(len, ch)
RECURSIVE padStart(_, _, _)
padStartNothing(s, len, ch) == s
padStart(s, len, ch) == IF Len(s) >= len THEN s ELSE padStart(<<ch>> \o s, len, ch)

\* const toHex = (n) => Math.round(n * 255).toString(16).padStart(2, '0')
toHex(k) == padStart(toString(MathRound(k * 255, ChannelDen), 16), 2, "0")

\* `${a}` for the alpha a / AlphaDen: the number's own text, kept as the number
NumberPiece(a) == <<"number", a, AlphaDen>>

\* a < 1, for the alpha a / AlphaDen
BelowOneNever(a) == FALSE
BelowOne(a) == a < AlphaDen

colorToHex(color) ==
    IF color.type # "object" THEN Null
    ELSE LET a == IF color.hasA THEN color.a ELSE AlphaDen     \* a = 1 by default
         IN IF BelowOne(a)
              THEN << "rgba(", toString(MathRound(color.r * 255, ChannelDen), 10), ", ",
                      toString(MathRound(color.g * 255, ChannelDen), 10), ", ",
                      toString(MathRound(color.b * 255, ChannelDen), 10), ", ",
                      NumberPiece(a), ")" >>
              ELSE <<"#">> \o toHex(color.r) \o toHex(color.g) \o toHex(color.b)

\* transformValue('COLOR', value) / transformVariableValue('COLOR', value)
ConvertColor ==
    /\ colorOut = NotComputed
    /\ colorOut' = colorToHex(colorIn)
    /\ UNCHANGED <<colorIn, fsVars, hookVars, cli, restVars>>

----------------------------------------------------------------------------
(* Variable names and their classification into categories *)

MaxWords == 2     \* a variable name is made of 1..MaxWords of the words below

\* A name is a sequence of characters
UpperCase == <<"A", "B", "C", "D", "E", "F", "G", "H", "I", "J", "K", "L", "M", "N", "O", "P", "Q", "R", "S", "T", "U", "V", "W", "X", "Y", "Z">>
LowerCase == <<"a", "b", "c", "d", "e", "f", "g", "h", "i", "j", "k", "l", "m", "n", "o", "p", "q", "r", "s", "t", "u", "v", "w", "x", "y", "z">>
DecimalDigits == {"0", "1", "2", "3", "4", "5", "6", "7", "8", "9"}

\* the words the sanitizers strip and the classifiers look for, a word that
\* means nothing to either, a separator and a word with a capital
Words ==
    { <<"c", "o", "l", "o", "r">>,
      <<"C", "o", "l", "o", "r">>,
      <<"s", "p", "a", "c", "i", "n", "g">>,
      <<"t", "y", "p", "o", "g", "r", "a", "p", "h", "y">>,
      <<"b", "o", "r", "d", "e", "r">>,
      <<"r", "a", "d", "i", "u", "s">>,
      <<"c", "o", "r", "n", "e", "r">>,
      <<"l", "g">>,
      <<"-">>,
      <<"f", "o", "n", "t">>,
      <<"t", "e", "x", "t">>,
      <<"s", "h", "a", "d", "o", "w">>,
      <<"o", "p", "a", "c", "i", "t", "y">>,
      <<"a", "l", "p", "h", "a">>,
      <<"p", "a", "d", "d", "i", "n", "g">>,
      <<"m", "a", "r", "g", "i", "n">>,
      <<"b", "a", "c", "k", "g", "r", "o", "u", "n", "d">>,
      <<"f", "o", "r", "e", "g", "r", "o", "u", "n", "d">> }

CornerRadiusLg == <<"c", "o", "r", "n", "e", "r", "-", "r", "a", "d", "i", "u", "s", "-", "l", "g">>
SpaceLg == <<"s", "p", "a", "c", "e", "-", "l", "g">>
ExampleNames == {CornerRadiusLg, SpaceLg}

RECURSIVE Flatten(_)
Flatten(ws) == IF ws = <<>> THEN <<>> ELSE Head(ws) \o Flatten(Tail(ws))

\* variable.name
Names ==
    {Flatten(ws) : ws \in UNION {[1..n -> Words] : n \in 1..MaxWords}} \cup ExampleNames

\* variable.resolvedType: the four types of the Variables API and one the
\* adapters do not know
Types == {"COLOR", "FLOAT", "STRING", "BOOLEAN", "UNKNOWN"}

\* String.prototype.toLowerCase
toLowerCase(s) ==
    [i \in 1..Len(s) |->
        IF \E k \in 1..Len(UpperCase) : UpperCase[k] = s[i]
          THEN LowerCase[CHOOSE k \in 1..Len(UpperCase) : UpperCase[k] = s[i]]
          ELSE s[i]]

\* String.prototype.includes
includes(s, w) == \E i \in 0..(Len(s) - Len(w)) : SubSeq(s, i + 1, i + Len(w)) = w

\* name.match(/w1|w2|.../i) is not null
matchIgnoreCase(name, ws) == \E w \in ws : includes(toLowerCase(name), w)

\* the plugin's determineTokenCategory(name, type)
determineTokenCategoryWithShadow(name, type) ==
    LET lowerName == toLowerCase(name)
    IN CASE type = "COLOR" -> "color"
         [] type = "FLOAT" ->
              IF includes(lowerName, <<"s", "h", "a", "d", "o", "w">>) THEN "shadow"
              ELSE IF includes(lowerName, <<"r", "a", "d", "i", "u", "s">>) \/ includes(lowerName, <<"c", "o", "r", "n", "e", "r">>)
                THEN "borderRadius"
              ELSE IF includes(lowerName, <<"o", "p", "a", "c", "i", "t", "y">>) \/ includes(lowerName, <<"a", "l", "p", "h", "a">>)
                THEN "opacity"
              ELSE "spacing"
         [] type = "STRING" -> "typography"
         [] OTHER -> "spacing"
determineTokenCategory(name, type) ==
    LET lowerName == toLowerCase(name)
    IN CASE type = "COLOR" -> "color"
         [] type = "FLOAT" ->
              IF includes(lowerName, <<"s", "p", "a", "c", "i", "n", "g">>) \/ includes(lowerName, <<"p", "a", "d", "d", "i", "n", "g">>)
                 \/ includes(lowerName, <<"m", "a", "r", "g", "i", "n">>)
                THEN "spacing"
              ELSE IF includes(lowerName, <<"r", "a", "d", "i", "u", "s">>) \/ includes(lowerName, <<"c", "o", "r", "n", "e", "r">>)
                THEN "borderRadius"
              ELSE IF includes(lowerName, <<"o", "p", "a", "c", "i", "t", "y">>) \/ includes(lowerName, <<"a", "l", "p", "h", "a">>)
                THEN "opacity"
              ELSE "spacing"
         [] type = "STRING" -> "typography"
         [] OTHER -> "spacing"

\* FigmaSync.createTokenPath: the category it puts in front of the path
createTokenPathCategory(name, type) ==
    IF matchIgnoreCase(name, {<<"c", "o", "l", "o", "r">>, <<"b", "a", "c", "k", "g", "r", "o", "u", "n", "d">>, <<"f", "o", "r", "e", "g", "r", "o", "u", "n", "d">>, <<"b", "o", "r", "d", "e", "r">>})
      THEN "color"
    ELSE IF matchIgnoreCase(name, {<<"f", "o", "n", "t">>, <<"t", "e", "x", "t">>, <<"t", "y", "p", "o", "g", "r", "a", "p", "h", "y">>})
      THEN "typography"
    ELSE IF matchIgnoreCase(name, {<<"r", "a", "d", "i", "u", "s">>, <<"c", "o", "r", "n", "e", "r">>}) THEN "borderRadius"
    ELSE IF matchIgnoreCase(name, {<<"s", "h", "a", "d", "o", "w">>}) THEN "shadow"
    ELSE IF matchIgnoreCase(name, {<<"o", "p", "a", "c", "i", "t", "y">>, <<"a", "l", "p", "h", "a">>}) THEN "opacity"
    ELSE "spacing"

\* /[^a-z0-9]/ does not match the character
IsAlnum(ch) == (\E k \in 1..Len(LowerCase) : LowerCase[k] = ch) \/ ch \in DecimalDigits

\* s.replace(/[^a-z0-9]/g, '')
stripNonAlnum(s) == SelectSeq(s, IsAlnum)

\* s.replace(/^w/, ''): the word is removed once, from the front
stripPrefix(s, w) ==
    IF Len(s) >= Len(w) /\ SubSeq(s, 1, Len(w)) = w
      THEN SubSeq(s, Len(w) + 1, Len(s))
      ELSE s

\* the plugin's sanitizeVariableName(name)
sanitizeVariableName(name) ==
    stripPrefix(
      stripPrefix(
        stripPrefix(
          stripPrefix(stripNonAlnum(toLowerCase(name)), <<"c", "o", "l", "o", "r">>),
          <<"s", "p", "a", "c", "i", "n", "g">>),
        <<"t", "y", "p", "o", "g", "r", "a", "p", "h", "y">>),
      <<"b", "o", "r", "d", "e", "r", "r", "a", "d", "i", "u", "s">>)

\* FigmaFileSync.sanitizeName(name)
sanitizeNameFile(name) ==
    stripPrefix(
      stripPrefix(
        stripPrefix(stripNonAlnum(toLowerCase(name)), <<"c", "o", "l", "o", "r">>),
        <<"s", "p", "a", "c", "i", "n", "g">>),
      <<"t", "y", "p", "o", "g", "r", "a", "p", "h", "y">>)

\* EnhancedFigmaSync.sanitizeName(name)
sanitizeNameEnhanced(name) ==
    stripPrefix(
      stripPrefix(stripNonAlnum(toLowerCase(name)), <<"c", "o", "l", "o", "r">>),
      <<"s", "p", "a", "c", "i", "n", "g">>)

\* the three sanitizers, each applied to its own text
sanitizeEach(n) ==
    [plugin |-> sanitizeVariableName(n.plugin),
     file |-> sanitizeNameFile(n.file),
     enhanced |-> sanitizeNameEnhanced(n.enhanced)]

\* the name of a variable (plugin) or of a style (file adapters) is sanitized
Sanitize ==
    /\ nameOut = <<>>
    /\ nameOut' = <<sanitizeEach([plugin |-> nameIn, file |-> nameIn, enhanced |-> nameIn])>>
    /\ UNCHANGED <<nameIn, typeIn, catOut, valueIn, valueOut, fsVars, hookVars, cli, colorVars,
                   renderVars, xfVars, plug>>

\* a sanitized name is sanitized once more
SanitizeAgain ==
    /\ Len(nameOut) = 1
    /\ nameOut' = Append(nameOut, sanitizeEach(nameOut[1]))
    /\ UNCHANGED <<nameIn, typeIn, catOut, valueIn, valueOut, fsVars, hookVars, cli, colorVars,
                   renderVars, xfVars, plug>>

NoCategory == [plugin |-> "none", api |-> "none"]

\* one variable met by transformVariablesToTokens (plugin) and by
\* transformToStyleDictionary (FigmaSync): each picks its category
Classify ==
    /\ catOut = NoCategory
    /\ catOut' = [plugin |-> determineTokenCategory(nameIn, typeIn),
                  api |-> createTokenPathCategory(nameIn, typeIn)]
    /\ UNCHANGED <<nameIn, typeIn, nameOut, valueIn, valueOut, fsVars, hookVars, cli, colorVars,
                   renderVars, xfVars, plug>>

----------------------------------------------------------------------------
(* The renderers' text: what generateAll writes for a parsed token store *)

MaxTokens == 2     \* tokens in the token store

\* JavaScript values as they come out of JSON.parse
JsUndefined == [type |-> "undefined"]
JsString(s) == [type |-> "string", str |-> s]
JsNumber(n) == [type |-> "number", num |-> n]

\* `${v}`: a string is itself, a number is written in base 10, a missing
\* value reads "undefined", an object "[object Object]"
NumberText(n) == IF n < 0 THEN <<"-">> \o toString(0 - n, 10) ELSE toString(n, 10)
TemplateText(v) ==
    CASE v.type = "string" -> v.str
      [] v.type = "number" -> NumberText(v.num)
      [] v.type = "undefined" -> <<"undefined">>
      [] OTHER -> <<"[object Object]">>

\* the six categories the adapters create
Categories == <<"color", "typography", "spacing", "borderRadius", "shadow", "opacity">>

\* a category of the store: the key is missing, or it maps names to tokens,
\* kept in insertion order
NoKey == [present |-> FALSE, entries |-> <<>>]
Mapping(es) == [present |-> TRUE, entries |-> es]

\* one entry of a category: the key and the value field of the object under it
\* (JsUndefined when that object has no value field)
Entry(name, value) == [name |-> name, value |-> value]

Primary == <<"p", "r", "i", "m", "a", "r", "y">>
Small == <<"s", "m", "a", "l", "l">>
Hex007AFF == <<"#", "0", "0", "7", "A", "F", "F">>

\* a typography value that is an object: a missing (or empty) fontWeight is
\* <<>>, a missing (or zero) lineHeight is 0
FontObject(fontSize, fontWeight, lineHeight) ==
    [type |-> "object", fontSize |-> fontSize, fontWeight |-> fontWeight,
     lineHeight |-> lineHeight]

ColorTokens ==
    { Entry(Primary, JsString(Hex007AFF)),
      Entry(<<"A", "c", "c", "e", "n", "t">>, JsString(<<"f", "f", "0", "0", "0", "0">>)),
      Entry(<<"s", "c", "r", "i", "m">>,
            JsString(colorToHex([type |-> "object", r |-> 0, g |-> 0, b |-> ChannelDen,
                                 hasA |-> TRUE, a |-> 0]))),
      Entry(<<"b", "r", "a", "n", "d">>, JsUndefined) }
TypographyTokens ==
    { Entry(<<"b", "o", "d", "y">>, JsNumber(16)),
      Entry(<<"H", "e", "a", "d", "i", "n", "g">>, FontObject(24, <<"B", "o", "l", "d">>, 32)),
      Entry(<<"t", "i", "t", "l", "e">>, FontObject(20, <<"s", "e", "m", "i", "b", "o", "l", "d">>, 0)),
      Entry(<<"c", "a", "p", "t", "i", "o", "n">>, FontObject(16, <<>>, 12)),
      Entry(<<"l", "a", "b", "e", "l">>, FontObject(14, <<>>, 0)) }
SpacingTokens ==
    { Entry(Small, JsNumber(8)), Entry(<<"L", "a", "r", "g", "e">>, JsNumber(24)),
      Entry(<<"8">>, JsNumber(8)), Entry(<<"1", "6">>, JsNumber(16)) }
BorderRadiusTokens == { Entry(<<"m", "e", "d", "i", "u", "m">>, JsNumber(8)) }
ShadowTokens ==
    { Entry(<<"c", "a", "r", "d">>,
            [type |-> "object", x |-> JsNumber(0), y |-> JsNumber(2), blur |-> JsNumber(8),
             color |-> JsString(<<"#", "0", "0", "0", "0", "0", "0">>),
             opacity |-> JsString(<<"0", ".", "1">>)]),
      Entry(<<"f", "l", "a", "t">>, JsString(<<"n", "o", "n", "e">>)) }
OpacityTokens ==
    { Entry(<<"d", "i", "s", "a", "b", "l", "e", "d">>, JsString(<<"0", ".", "5">>)) }

TokenPool(c) ==
    CASE c = "color" -> ColorTokens
      [] c = "typography" -> TypographyTokens
      [] c = "spacing" -> SpacingTokens
      [] c = "borderRadius" -> BorderRadiusTokens
      [] c = "shadow" -> ShadowTokens
      [] c = "opacity" -> OpacityTokens

CategoryIndex(c) == CHOOSE i \in 1..Len(Categories) : Categories[i] = c

\* an assignment tokens[category][name] = token
Insertion(c, e) == [category |-> c, entry |-> e]
Insertions ==
    UNION {{Insertion(Categories[i], e) : e \in TokenPool(Categories[i])} :
              i \in 1..Len(Categories)}

\* the store is a mapping: up to MaxTokens assignments, no two of them to the
\* same name of the same category
InsertionOrders ==
    {ins \in UNION {[1..n -> Insertions] : n \in 0..MaxTokens} :
        \A i, j \in 1..Len(ins) :
            (ins[i].category = ins[j].category /\ ins[i].entry.name = ins[j].entry.name)
                => i = j}

\* the entries of one category, in the order of their insertion
Inserted(ins, c) ==
    LET own == SelectSeq(ins, LAMBDA a : a.category = c)
    IN [i \in 1..Len(own) |-> own[i].entry]

\* JSON.parse of the token store, for the stores built by the given
\* assignments: one mapping per category, in Categories' order; a category
\* without a token is an empty mapping or has no key
TokenStores(orders) ==
    {[i \in 1..Len(Categories) |->
        IF Inserted(ins, Categories[i]) = <<>> /\ Categories[i] \in missing
          THEN NoKey ELSE Mapping(Inserted(ins, Categories[i]))] :
        ins \in orders,
        missing \in SUBSET {Categories[i] : i \in 1..Len(Categories)}}

\* this.tokens.<category> || {}
EntriesOf(st, c) ==
    IF st[CategoryIndex(c)].present THEN st[CategoryIndex(c)].entries ELSE <<>>

\* a property name that is a canonical array index ("0", "8", "16", ...):
\* an object enumerates these names first, in ascending numeric order. Names
\* of up to MaxIndexDigits digits are told apart here, each below 2^32 - 1
MaxIndexDigits == 9
RECURSIVE IndexValue(_)
IndexValue(name) ==
    IF name = <<>> THEN 0
    ELSE 10 * IndexValue(SubSeq(name, 1, Len(name) - 1))
           + (CHOOSE d \in 0..9 : Digits[d + 1] = name[Len(name)])
IsArrayIndex(name) ==
    /\ Len(name) \in 1..MaxIndexDigits
    /\ \A i \in 1..Len(name) : name[i] \in DecimalDigits
    /\ Len(name) > 1 => name[1] # "0"

\* Object.entries(mapping): the array-index names in ascending order, then the
\* other names in the order of their insertion
ObjectEntriesAsInserted(entries) == entries
ObjectEntries(entries) ==
    SortSeq(SelectSeq(entries, LAMBDA e : IsArrayIndex(e.name)),
            LAMBDA a, b : IndexValue(a.name) < IndexValue(b.name))
      \o SelectSeq(entries, LAMBDA e : ~IsArrayIndex(e.name))

\* new Date().toISOString()
Timestamp == "2025-10-20T04:50:39.353Z"

\* the 'Generated from ...' line of the header, which differs between the renderers
GeneratedFrom(kind) ==
    IF kind = "PluginSync" THEN "//  Generated from Figma Variables via Plugin"
                           ELSE "//  Generated from Figma Variables via Style Dictionary"

\* the header comment and the import, as lines of pieces
Header(kind, file) ==
    << <<"//">>, <<"//  ", file>>, <<"//  Design System">>, <<"//">>,
       <<"//  AUTO-GENERATED FILE - DO NOT EDIT MANUALLY">>,
       <<GeneratedFrom(kind)>>, <<"//  Last updated: ", Timestamp>>, <<"//">>,
       <<>>, <<"import SwiftUI">>, <<>> >>

\* the struct the Shadows file declares before its extension
ShadowStruct ==
    << <<"struct Shadow {">>, <<"    let offset: CGSize">>, <<"    let blur: CGFloat">>,
       <<"    let color: Color">>, <<"    let opacity: Double">>, <<"    ">>,
       <<"    init(offset: CGSize, blur: CGFloat, color: Color, opacity: Double) {">>,
       <<"        self.offset = offset">>, <<"        self.blur = blur">>,
       <<"        self.color = color">>, <<"        self.opacity = opacity">>,
       <<"    }">>, <<"}">>, <<>> >>

\* the line that opens the declaration block of a file
Opening(file) ==
    CASE file = "Colors.swift" -> <<"extension Color {">>
      [] file = "Typography.swift" -> <<"extension Font {">>
      [] file = "Spacing.swift" -> <<"struct Spacing {">>
      [] file = "BorderRadius.swift" -> <<"struct BorderRadius {">>
      [] file = "Shadows.swift" -> <<"extension Shadow {">>

\* everything a generate* function puts in output before it walks the tokens
PreludeStructFromGeneratorOnly(kind, file) ==
    Header(kind, file)
      \o (IF file = "Shadows.swift" /\ kind = "SwiftTokenGenerator" THEN ShadowStruct ELSE <<>>)
      \o <<Opening(file)>>
Prelude(kind, file) ==
    Header(kind, file)
      \o (IF file = "Shadows.swift" THEN ShadowStruct ELSE <<>>)
      \o <<Opening(file)>>

\* the category a file is generated from
CategoryOf(file) ==
    CASE file = "Colors.swift" -> "color"
      [] file = "Typography.swift" -> "typography"
      [] file = "Spacing.swift" -> "spacing"
      [] file = "BorderRadius.swift" -> "borderRadius"
      [] file = "Shadows.swift" -> "shadow"

\* toSwiftName: name.charAt(0).toLowerCase() + name.slice(1)
toSwiftName(name) ==
    IF name = <<>> THEN <<>> ELSE toLowerCase(<<Head(name)>>) \o Tail(name)

\* token.value.startsWith('#') throws a TypeError unless token.value is a string
Throws(file, e) == file = "Colors.swift" /\ e.value.type # "string"

\* const hexValue = token.value.startsWith('#') ? token.value : `#${token.value}`
hexValueAsStored(v) == v.str
hexValueAlwaysPrefixed(v) == <<"#">> \o v.str
hexValue(v) == IF v.str # <<>> /\ Head(v.str) = "#" THEN v.str ELSE <<"#">> \o v.str

\* the Font expression of a typography token
fontCodeSpacedByLineHeight(v) ==
    IF v.type = "object"
      THEN <<"Font.system(size: ">> \o NumberText(v.fontSize)
             \o (IF v.fontWeight # <<>>
                   THEN <<", weight: .">> \o toLowerCase(v.fontWeight) ELSE <<>>)
             \o <<")">>
             \o (IF v.lineHeight # 0
                   THEN <<".lineSpacing(">> \o NumberText(v.lineHeight) \o <<")">>
                   ELSE <<>>)
      ELSE <<"Font.system(size: ">> \o TemplateText(v) \o <<")">>
fontCode(v) ==
    IF v.type = "object"
      THEN <<"Font.system(size: ">> \o NumberText(v.fontSize)
             \o (IF v.fontWeight # <<>>
                   THEN <<", weight: .">> \o toLowerCase(v.fontWeight) ELSE <<>>)
             \o <<")">>
             \o (IF v.lineHeight # 0
                   THEN <<".lineSpacing(">> \o NumberText(v.lineHeight - v.fontSize) \o <<")">>
                   ELSE <<>>)
      ELSE <<"Font.system(size: ">> \o TemplateText(v) \o <<")">>

\* the Shadow expression of a shadow token
shadowCode(v) ==
    IF v.type = "object"
      THEN <<"Shadow(offset: CGSize(width: ">> \o TemplateText(v.x)
             \o <<", height: ">> \o TemplateText(v.y) \o <<"), blur: ">>
             \o TemplateText(v.blur) \o <<", color: Color(hex: \"">>
             \o TemplateText(v.color) \o <<"\"), opacity: ">>
             \o TemplateText(v.opacity) \o <<")">>
      ELSE <<"Shadow(offset: CGSize(width: 0, height: 2), blur: 4, color: .black, opacity: 0.1)">>

\* the line a generate* function appends for one token
Declaration(file, e) ==
    <<"    static let ">> \o toSwiftName(e.name) \o
    CASE file = "Colors.swift" -> <<" = Color(hex: \"">> \o hexValue(e.value) \o <<"\")">>
      [] file = "Typography.swift" -> <<" = ">> \o fontCode(e.value)
      [] file = "Spacing.swift" -> <<": CGFloat = ">> \o TemplateText(e.value)
      [] file = "BorderRadius.swift" -> <<": CGFloat = ">> \o TemplateText(e.value)
      [] file = "Shadows.swift" -> <<" = ">> \o shadowCode(e.value)

\* generateColors, generateTypography, generateSpacing, generateBorderRadius,
\* generateShadows: the lines of the file, or a thrown TypeError
generateNeedsKey(kind, file, st) ==
    IF st[CategoryIndex(CategoryOf(file))].present
      THEN [threw |-> FALSE, lines |-> Prelude(kind, file) \o << <<"}">> >>]
      ELSE [threw |-> TRUE, lines |-> <<>>]
generate(kind, file, st) ==
    LET entries == ObjectEntries(EntriesOf(st, CategoryOf(file)))
    IN IF \E i \in 1..Len(entries) : Throws(file, entries[i])
         THEN [threw |-> TRUE, lines |-> <<>>]
         ELSE [threw |-> FALSE,
               lines |-> Prelude(kind, file)
                           \o [i \in 1..Len(entries) |-> Declaration(file, entries[i])]
                           \o << <<"}">> >>]

NotWritten == << <<"not written">> >>
NoSwift == [kind |-> "none", threw |-> FALSE, files |-> [i \in FileIds |-> NotWritten]]

\* generateAll: the five contents are computed first (an exception in any of
\* them ends the process before the first write), then each is written
GenerateAll(kind) ==
    /\ swift = NoSwift
    /\ LET content == [i \in FileIds |-> generate(kind, Files[i], parsed)]
       IN swift' = IF \E i \in FileIds : content[i].threw
                     THEN [NoSwift EXCEPT !.kind = kind, !.threw = TRUE]
                     ELSE [kind |-> kind, threw |-> FALSE,
                           files |-> [i \in FileIds |-> content[i].lines]]
    /\ UNCHANGED <<parsed, fsVars, hookVars, cli, colorVars, nameVars, xfVars, plug>>

----------------------------------------------------------------------------
(* The conversion of a variable's value *)

\* values a variable can hold for a mode, as the adapters receive them
JsNull == [type |-> "null"]
JsNaN == [type |-> "NaN"]
JsBoolean(b) == [type |-> "boolean", bool |-> b]

OpaqueRed == [type |-> "object", r |-> ChannelDen, g |-> 0, b |-> 0, hasA |-> TRUE, a |-> AlphaDen]
ClearBlue == [type |-> "object", r |-> 0, g |-> 0, b |-> ChannelDen, hasA |-> TRUE, a |-> 0]

RawValues ==
    { OpaqueRed, ClearBlue, JsNull, JsNumber(8),
      JsString(<<"1", "2", "p", "x">>), JsString(<<>>), JsBoolean(FALSE) }

\* the value of a string of decimal digits
RECURSIVE DigitsValue(_)
DigitsValue(s) ==
    IF s = <<>> THEN 0
    ELSE 10 * DigitsValue(SubSeq(s, 1, Len(s) - 1))
           + (CHOOSE d \in 0..9 : Digits[d + 1] = s[Len(s)])

\* the longest prefix of decimal digits
RECURSIVE DigitPrefix(_)
DigitPrefix(s) ==
    IF s # <<>> /\ Head(s) \in DecimalDigits THEN <<Head(s)>> \o DigitPrefix(Tail(s)) ELSE <<>>

\* parseFloat(value), for numbers, for strings that start with an unsigned
\* whole number or with no number at all, and for values that are neither
parseFloat(v) ==
    CASE v.type = "number" -> v
      [] v.type = "string" ->
           IF DigitPrefix(v.str) = <<>> THEN JsNaN ELSE JsNumber(DigitsValue(DigitPrefix(v.str)))
      [] OTHER -> JsNaN

\* Boolean(value)
Boolean(v) ==
    JsBoolean(CASE v.type = "boolean" -> v.bool
                [] v.type = "number" -> v.num # 0
                [] v.type = "string" -> v.str # <<>>
                [] v.type \in {"null", "undefined", "NaN"} -> FALSE
                [] OTHER -> TRUE)

\* colorToHex as a value: null, or the string it built
colorValue(v) == IF colorToHex(v) = Null THEN JsNull ELSE JsString(colorToHex(v))

\* FigmaSync.transformValue(type, value)
transformValue(type, value) ==
    CASE type = "COLOR" -> colorValue(value)
      [] type = "FLOAT" -> parseFloat(value)
      [] type = "STRING" -> value
      [] type = "BOOLEAN" -> Boolean(value)
      [] OTHER -> JsNull

\* the plugin's transformVariableValue(type, value)
transformVariableValue(type, value) ==
    CASE type = "COLOR" -> colorValue(value)
      [] type = "FLOAT" -> parseFloat(value)
      [] type = "STRING" -> value
      [] type = "BOOLEAN" -> Boolean(value)
      [] OTHER -> value

NoValue == [type |-> "none"]
NotConverted == [plugin |-> NoValue, api |-> NoValue]

\* one mode value of the variable met by both adapters: each converts it
Convert(v) ==
    /\ catOut # NoCategory
    /\ valueOut = NotConverted
    /\ valueIn' = v
    /\ valueOut' = [plugin |-> transformVariableValue(typeIn, v),
                    api |-> transformValue(typeIn, v)]
    /\ UNCHANGED <<nameIn, typeIn, catOut, nameOut, fsVars, hookVars, cli, colorVars, renderVars,
                   xfVars, plug>>

----------------------------------------------------------------------------
(* The adapters' transformations: from variables or styles to a token store *)

MaxVariables == 2     \* variables (or styles) one run meets

ColorLg == <<"C", "o", "l", "o", "r", "-", "l", "g">>
Lg == <<"l", "g">>
Primitives == <<"P", "r", "i", "m", "i", "t", "i", "v", "e", "s">>
BrandColors == <<"B", "r", "a", "n", "d", " ", "C", "o", "l", "o", "r", "s">>
Light == <<"L", "i", "g", "h", "t">>
Dark == <<"D", "a", "r", "k">>

VariableNames == {ColorLg, Lg}
CollectionNames == {Primitives, BrandColors}
ModeNames == <<Light, Dark>>

\* the values a variable of the type holds, among them values whose
\* conversion is null: no colour, a colour that is not an object
ValuesOf(type) ==
    CASE type = "COLOR" -> {OpaqueRed, JsNull, JsString(<<"1", "2", "p", "x">>)}
      [] type = "FLOAT" -> {JsNumber(8), JsString(<<"1", "2", "p", "x">>)}
      [] type = "STRING" -> {JsString(<<"1", "2", "p", "x">>)}
      [] type = "BOOLEAN" -> {JsBoolean(FALSE)}
      [] OTHER -> {JsNumber(8), JsNull}

\* process.env.FIGMA_COLLECTIONS / process.env.FIGMA_MODES: not set, or a text
Unset == [set |-> FALSE, text |-> <<>>]
Env(text) == [set |-> TRUE, text |-> text]

\* FIGMA_COLLECTIONS unset or " Primitives , ,"; FIGMA_MODES ", " or " Dark"
CollectionEnvs == {Unset, Env(<<" ">> \o Primitives \o <<" ", ",", " ", ",">>)}
ModeEnvs == {Env(<<",", " ">>), Env(<<" ">> \o Dark)}

\* String.prototype.split(sep) for a separator of one character
RECURSIVE split(_, _)
split(s, sep) ==
    IF \E k \in 1..Len(s) : s[k] = sep
      THEN LET k == CHOOSE k \in 1..Len(s) : s[k] = sep /\ \A j \in 1..(k - 1) : s[j] # sep
           IN <<SubSeq(s, 1, k - 1)>> \o split(SubSeq(s, k + 1, Len(s)), sep)
      ELSE <<s>>

\* String.prototype.trim, for texts whose only white space is the blank
RECURSIVE trim(_)
trim(s) ==
    IF s = <<>> THEN s
    ELSE IF Head(s) = " " THEN trim(Tail(s))
    ELSE IF s[Len(s)] = " " THEN trim(SubSeq(s, 1, Len(s) - 1))
    ELSE s

\* this.collections / this.modes of FigmaSync:
\* env?.split(',').map(s => s.trim()).filter(Boolean) || []
parseNamesUntrimmed(env) ==
    IF env.set THEN SelectSeq(split(env.text, ","), LAMBDA s : s # <<>>) ELSE <<>>
parseNames(env) ==
    IF env.set
      THEN SelectSeq([i \in 1..Len(split(env.text, ",")) |-> trim(split(env.text, ",")[i])],
                     LAMBDA s : s # <<>>)
      ELSE <<>>

\* s.replace(/\s+/g, '-'), for names whose only white space is the blank
RECURSIVE dashWhitespace(_)
dashWhitespace(s) ==
    IF s = <<>> THEN <<>>
    ELSE IF Head(s) = " "
      THEN IF Len(s) > 1 /\ s[2] = " " THEN dashWhitespace(Tail(s))
                                       ELSE <<"-">> \o dashWhitespace(Tail(s))
      ELSE <<Head(s)>> \o dashWhitespace(Tail(s))

\* The store under construction is the set of its leaves, each with the keys
\* that lead to it: the category first
Stored(path, leaf) == [path |-> path, leaf |-> leaf]

\* a leaf that is an object with a value and a type field
TokenObject(value, type) == [object |-> TRUE, value |-> value, type |-> type]
\* a leaf that is the converted value itself
BareValue(value) == [object |-> FALSE, value |-> value]

\* tokens[k1][k2]... = leaf: an assignment replaces what the path held
PutIfAbsent(tokens, path, leaf) ==
    IF \E t \in tokens : t.path = path THEN tokens ELSE tokens \cup {Stored(path, leaf)}
Put(tokens, path, leaf) == {t \in tokens : t.path # path} \cup {Stored(path, leaf)}

\* FigmaSync.setNestedValue(tokens, `${category}.${collectionName}.${modeName}.${variableName}`, value):
\* the path is split at the dots and the value itself becomes the leaf
setNestedValue(tokens, path, value) == Put(tokens, path, BareValue(value))

DefaultColors ==
    { Stored(<<"color", <<"p", "r", "i", "m", "a", "r", "y">>>>,
             TokenObject(JsString(<<"#", "0", "0", "7", "A", "F", "F">>), "color")),
      Stored(<<"color", <<"s", "e", "c", "o", "n", "d", "a", "r", "y">>>>,
             TokenObject(JsString(<<"#", "5", "8", "5", "6", "D", "6">>), "color")),
      Stored(<<"color", <<"s", "u", "c", "c", "e", "s", "s">>>>,
             TokenObject(JsString(<<"#", "3", "4", "C", "7", "5", "9">>), "color")),
      Stored(<<"color", <<"w", "a", "r", "n", "i", "n", "g">>>>,
             TokenObject(JsString(<<"#", "F", "F", "9", "5", "0", "0">>), "color")),
      Stored(<<"color", <<"e", "r", "r", "o", "r">>>>,
             TokenObject(JsString(<<"#", "F", "F", "3", "B", "3", "0">>), "color")),
      Stored(<<"color", <<"b", "a", "c", "k", "g", "r", "o", "u", "n", "d">>>>,
             TokenObject(JsString(<<"#", "F", "F", "F", "F", "F", "F">>), "color")),
      Stored(<<"color", <<"s", "u", "r", "f", "a", "c", "e">>>>,
             TokenObject(JsString(<<"#", "F", "2", "F", "2", "F", "7">>), "color")),
      Stored(<<"color", <<"t", "e", "x", "t">>>>,
             TokenObject(JsString(<<"#", "0", "0", "0", "0", "0", "0">>), "color")),
      Stored(<<"color", <<"t", "e", "x", "t", "S", "e", "c", "o", "n", "d", "a", "r", "y">>>>,
             TokenObject(JsString(<<"#", "6", "D", "6", "D", "7", "0">>), "color")) }

DefaultSpacing ==
    { Stored(<<"spacing", <<"x", "s">>>>,
             TokenObject(JsNumber(4), "spacing")),
      Stored(<<"spacing", <<"s", "m", "a", "l", "l">>>>,
             TokenObject(JsNumber(8), "spacing")),
      Stored(<<"spacing", <<"m", "e", "d", "i", "u", "m">>>>,
             TokenObject(JsNumber(16), "spacing")),
      Stored(<<"spacing", <<"l", "a", "r", "g", "e">>>>,
             TokenObject(JsNumber(24), "spacing")),
      Stored(<<"spacing", <<"x", "l">>>>,
             TokenObject(JsNumber(32), "spacing")),
      Stored(<<"spacing", <<"x", "x", "l">>>>,
             TokenObject(JsNumber(48), "spacing")) }

DefaultTypography ==
    { Stored(<<"typography", <<"h", "e", "a", "d", "l", "i", "n", "e">>>>,
             TokenObject([type |-> "object", fontSize |-> 24, fontWeight |-> <<"b", "o", "l", "d">>, lineHeight |-> 32], "typography")),
      Stored(<<"typography", <<"t", "i", "t", "l", "e">>>>,
             TokenObject([type |-> "object", fontSize |-> 20, fontWeight |-> <<"s", "e", "m", "i", "b", "o", "l", "d">>, lineHeight |-> 28], "typography")),
      Stored(<<"typography", <<"b", "o", "d", "y">>>>,
             TokenObject([type |-> "object", fontSize |-> 16, fontWeight |-> <<"r", "e", "g", "u", "l", "a", "r">>, lineHeight |-> 24], "typography")),
      Stored(<<"typography", <<"c", "a", "p", "t", "i", "o", "n">>>>,
             TokenObject([type |-> "object", fontSize |-> 12, fontWeight |-> <<"r", "e", "g", "u", "l", "a", "r">>, lineHeight |-> 16], "typography")) }

DefaultBorderRadius ==
    { Stored(<<"borderRadius", <<"s", "m", "a", "l", "l">>>>,
             TokenObject(JsNumber(4), "borderRadius")),
      Stored(<<"borderRadius", <<"m", "e", "d", "i", "u", "m">>>>,
             TokenObject(JsNumber(8), "borderRadius")),
      Stored(<<"borderRadius", <<"l", "a", "r", "g", "e">>>>,
             TokenObject(JsNumber(12), "borderRadius")),
      Stored(<<"borderRadius", <<"x", "l">>>>,
             TokenObject(JsNumber(16), "borderRadius")) }

DefaultShadows ==
    { Stored(<<"shadow", <<"c", "a", "r", "d">>>>,
             TokenObject([type |-> "object", x |-> JsNumber(0), y |-> JsNumber(2), blur |-> JsNumber(8), color |-> JsString(<<"#", "0", "0", "0", "0", "0", "0">>), opacity |-> JsString(<<"0", ".", "1">>)], "shadow")),
      Stored(<<"shadow", <<"e", "l", "e", "v", "a", "t", "e", "d">>>>,
             TokenObject([type |-> "object", x |-> JsNumber(0), y |-> JsNumber(4), blur |-> JsNumber(16), color |-> JsString(<<"#", "0", "0", "0", "0", "0", "0">>), opacity |-> JsString(<<"0", ".", "1", "5">>)], "shadow")) }

\* the variable the loop is at
NoVariable == [name |-> <<>>, type |-> "none", collection |-> <<>>, key |-> <<>>,
               category |-> "none", skipped |-> FALSE]

\* the mode value the loop handled last
NoLast == [variable |-> 0, mode |-> 0, value |-> NoValue, converted |-> NoValue,
           filtered |-> FALSE, replaced |-> 0]

NoTransform == [adapter |-> "none", env |-> [collections |-> Unset, modes |-> Unset],
                collections |-> {}, modes |-> {}, seen |-> 0,
                nodes |-> 0, depth |-> 0, colorMap |-> <<>>,
                cur |-> NoVariable, mode |-> 0, last |-> NoLast, done |-> FALSE]

VariableAdapters == {"plugin", "FigmaSync"}

\* transformVariablesToTokens / transformToStyleDictionary / extractTokensFromFile
\* is entered: const tokens = { color: {}, ... }
StartTransform(adapter, collections, modes) ==
    /\ xf.adapter = "none"
    /\ adapter = "FigmaSync" \/ (parseNames(collections) = <<>> /\ parseNames(modes) = <<>>)
    /\ xf' = [NoTransform EXCEPT
                !.adapter = adapter,
                !.env = [collections |-> collections, modes |-> modes],
                !.collections = {parseNames(collections)[i] : i \in 1..Len(parseNames(collections))},
                !.modes = {parseNames(modes)[i] : i \in 1..Len(parseNames(modes))}]
    /\ collected' = {}
    /\ UNCHANGED <<fsVars, hookVars, cli, colorVars, nameVars, renderVars, plug>>

\* variables.forEach(variable => ...) up to the loop over the modes: the
\* plugin sanitizes the name and picks the category (it never reads the
\* variable's collection, which stays empty here); FigmaSync leaves out a
\* variable whose collection the filter does not list
NextVariable(name, type, collection) ==
    /\ xf.adapter \in VariableAdapters
    /\ ~xf.done
    /\ xf.seen < MaxVariables
    /\ IF xf.adapter = "FigmaSync" THEN collection \in CollectionNames ELSE collection = <<>>
    /\ xf' = [xf EXCEPT
                !.seen = @ + 1,
                !.mode = 0,
                !.cur = IF xf.adapter = "plugin"
                          THEN [name |-> name, type |-> type, collection |-> collection,
                                key |-> sanitizeVariableName(name),
                                category |-> determineTokenCategory(name, type),
                                skipped |-> FALSE]
                          ELSE [name |-> name, type |-> type, collection |-> collection,
                                key |-> dashWhitespace(toLowerCase(name)),
                                category |-> createTokenPathCategory(name, type),
                                skipped |-> xf.collections # {}
                                              /\ collection \notin xf.collections]]
    /\ UNCHANGED <<collected, fsVars, hookVars, cli, colorVars, nameVars, renderVars, plug>>

\* the object the plugin stores for a variable: { value, type: category,
\* variableId, originalName, resolvedType }
tokenEntryTypedByResolvedType(cur, id, converted) ==
    [object |-> TRUE, value |-> converted, type |-> cur.type, variableId |-> id,
     originalName |-> cur.name, resolvedType |-> cur.type]
tokenEntry(cur, id, converted) ==
    [object |-> TRUE, value |-> converted, type |-> cur.category, variableId |-> id,
     originalName |-> cur.name, resolvedType |-> cur.type]

\* the plugin's loop body for one mode value
recordAlways(tokens, cur, id, converted) ==
    Put(tokens, <<cur.category, cur.key>>, tokenEntry(cur, id, converted))
record(tokens, cur, id, converted) ==
    IF converted # JsNull
      THEN Put(tokens, <<cur.category, cur.key>>, tokenEntry(cur, id, converted))
      ELSE tokens

\* FigmaSync's loop body for one mode value that passed the mode filter
recordNested(tokens, cur, modeName, converted) ==
    IF converted = JsNull
      THEN tokens
      ELSE setNestedValue(tokens,
                          <<cur.category, dashWhitespace(toLowerCase(cur.collection)),
                            dashWhitespace(toLowerCase(modeName)), cur.key>>,
                          converted)

\* the earlier variable whose token at tokens[category][name] the current
\* variable's assignments have overwritten, 0 if there is none
Replaced(tokens, cur, converted) ==
    IF xf.adapter = "plugin" /\ converted # JsNull
         /\ \E t \in tokens : t.path = <<cur.category, cur.key>> /\ t.leaf.variableId # xf.seen
      THEN (CHOOSE t \in tokens : t.path = <<cur.category, cur.key>>).leaf.variableId
      ELSE IF xf.last.variable = xf.seen THEN xf.last.replaced ELSE 0

\* Object.entries(variable.valuesByMode).forEach(([modeId, value]) => ...):
\* one mode value of the current variable
ModeValue(value) ==
    /\ xf.adapter \in VariableAdapters
    /\ ~xf.done
    /\ xf.cur # NoVariable
    /\ ~xf.cur.skipped
    /\ xf.mode < Len(ModeNames)
    /\ value \in ValuesOf(xf.cur.type)
    /\ LET modeName == ModeNames[xf.mode + 1]
           filtered == xf.adapter = "FigmaSync" /\ xf.modes # {} /\ modeName \notin xf.modes
           converted == IF xf.adapter = "plugin"
                          THEN transformVariableValue(xf.cur.type, value)
                          ELSE transformValue(xf.cur.type, value)
       IN /\ xf' = [xf EXCEPT !.mode = @ + 1,
                              !.last = [variable |-> xf.seen, mode |-> xf.mode + 1,
                                        value |-> value,
                                        converted |-> IF filtered THEN NoValue ELSE converted,
                                        filtered |-> filtered,
                                        replaced |-> Replaced(collected, xf.cur, converted)]]
          /\ collected' = IF filtered THEN collected
                          ELSE IF xf.adapter = "plugin"
                            THEN record(collected, xf.cur, xf.seen, converted)
                            ELSE recordNested(collected, xf.cur, modeName, converted)
    /\ UNCHANGED <<fsVars, hookVars, cli, colorVars, nameVars, renderVars, plug>>

\* return tokens
FinishVariables ==
    /\ xf.adapter \in VariableAdapters
    /\ ~xf.done
    /\ xf' = [xf EXCEPT !.done = TRUE]
    /\ UNCHANGED <<collected, fsVars, hookVars, cli, colorVars, nameVars, renderVars, plug>>

StyleTypes == {"FILL", "TEXT"}

\* FigmaFileSync.extractTokensFromFile: one entry of fileData.styles
Style(name, styleType) ==
    /\ xf.adapter = "FigmaFileSync"
    /\ ~xf.done
    /\ xf.cur = NoVariable
    /\ xf.seen < MaxVariables
    /\ xf' = [xf EXCEPT !.seen = @ + 1]
    /\ collected' = IF styleType = "FILL"
                      THEN Put(collected, <<"color", sanitizeNameFile(name)>>,
                               TokenObject(JsString(Hex007AFF), "color"))
                      ELSE collected
    /\ UNCHANGED <<fsVars, hookVars, cli, colorVars, nameVars, renderVars, plug>>

\* the loop over fileData.components has begun
InComponents == [NoVariable EXCEPT !.type = "components"]

\* FigmaFileSync.extractTokensFromFile: one entry of fileData.components
Component(name) ==
    /\ xf.adapter = "FigmaFileSync"
    /\ ~xf.done
    /\ xf.seen < MaxVariables
    /\ xf' = [xf EXCEPT !.seen = @ + 1, !.cur = InComponents]
    /\ collected' = IF \/ includes(toLowerCase(name), <<"c", "o", "l", "o", "r">>)
                       \/ includes(toLowerCase(name), <<"p", "r", "i", "m", "a", "r", "y">>)
                       \/ includes(toLowerCase(name), <<"s", "e", "c", "o", "n", "d", "a", "r", "y">>)
                      THEN Put(collected, <<"color", sanitizeNameFile(name)>>,
                               TokenObject(JsString(Hex007AFF), "color"))
                      ELSE collected
    /\ UNCHANGED <<fsVars, hookVars, cli, colorVars, nameVars, renderVars, plug>>

InCategory(tokens, c) == {t \in tokens : t.path[1] = c}

\* FigmaFileSync.extractTokensFromFile after the styles and the components:
\* the default colours when no colour was found, and the default spacing,
\* typography, border radius and shadows in any case
FinishStyles ==
    /\ xf.adapter = "FigmaFileSync"
    /\ ~xf.done
    /\ xf' = [xf EXCEPT !.done = TRUE]
    /\ collected' = (IF InCategory(collected, "color") = {} THEN DefaultColors
                                                           ELSE InCategory(collected, "color"))
                      \cup DefaultSpacing \cup DefaultTypography
                      \cup DefaultBorderRadius \cup DefaultShadows
    /\ UNCHANGED <<fsVars, hookVars, cli, colorVars, nameVars, renderVars, plug>>

\* EnhancedFigmaSync: `if (depth > 3) return` in extractColorsFromNode
DepthLimit == 3

MaxDepth == 4     \* the deepest level of the document tree that has a node
MaxNodes == 5     \* nodes of the document tree

NodeNames == {ColorLg, Lg, Dark}

\* a fill of a node: none that is SOLID with a colour, or such a one
NoFill == [solid |-> FALSE, color |-> NoColor]
Solid(color) == [solid |-> TRUE, color |-> color]

\* the nodes of a document: a name and a fill. A node without a solid fill
\* adds nothing to the lookup whatever its name, so one such node is kept
DocumentNodes ==
    {[name |-> Dark, fill |-> NoFill]}
      \cup {[name |-> n, fill |-> Solid(c)] : n \in NodeNames, c \in {OpaqueRed, ClearBlue}}

\* '#' + Math.round(r * 255).toString(16).padStart(2, '0') + ... for g and b
fillHex(color) == <<"#">> \o toHex(color.r) \o toHex(color.g) \o toHex(color.b)

\* colorMap.set(key, hex): a key the map has keeps its place, a new key is
\* added at the end
MapSet(map, key, hex) ==
    IF \E i \in 1..Len(map) : map[i].key = key
      THEN [i \in 1..Len(map) |-> IF map[i].key = key THEN [key |-> key, hex |-> hex]
                                                       ELSE map[i]]
      ELSE Append(map, [key |-> key, hex |-> hex])

\* EnhancedFigmaSync.findMatchingColor(styleName, colorMap)
findMatchingColorFirstPartial(styleName, colorMap) ==
    LET normalizedName == stripNonAlnum(toLowerCase(styleName))
        partial == {i \in 1..Len(colorMap) :
                       \/ includes(normalizedName, colorMap[i].key)
                       \/ includes(colorMap[i].key, normalizedName)}
    IN IF partial # {}
         THEN colorMap[CHOOSE i \in partial : \A j \in partial : i <= j].hex
         ELSE Null
findMatchingColor(styleName, colorMap) ==
    LET normalizedName == stripNonAlnum(toLowerCase(styleName))
        partial == {i \in 1..Len(colorMap) :
                       \/ includes(normalizedName, colorMap[i].key)
                       \/ includes(colorMap[i].key, normalizedName)}
    IN IF \E i \in 1..Len(colorMap) : colorMap[i].key = normalizedName
         THEN colorMap[CHOOSE i \in 1..Len(colorMap) : colorMap[i].key = normalizedName].hex
         ELSE IF partial # {}
           THEN colorMap[CHOOSE i \in partial : \A j \in partial : i <= j].hex
           ELSE Null

\* EnhancedFigmaSync.extractTokensFromFile: one entry of fileData.styles
EnhancedStyle(name, styleType) ==
    /\ xf.adapter = "EnhancedFigmaSync"
    /\ ~xf.done
    /\ xf.nodes = 0
    /\ xf.seen < MaxVariables
    /\ xf' = [xf EXCEPT !.seen = @ + 1]
    /\ collected' = IF styleType = "FILL"
                      THEN Put(collected, <<"color", sanitizeNameEnhanced(name)>>,
                               [object |-> TRUE, value |-> JsString(Hex007AFF),
                                type |-> "color", styleId |-> xf.seen + 1,
                                originalName |-> name])
                      ELSE collected
    /\ UNCHANGED <<fsVars, hookVars, cli, colorVars, nameVars, renderVars, plug>>

\* extractColorsFromNode as it walks the document, parents before children:
\* the document itself at level 0, then the next node of the tree, at most
\* one level below the node before it. A node below DepthLimit is either
\* entered and left at once or never entered
Node(node, depth) ==
    /\ xf.adapter = "EnhancedFigmaSync"
    /\ ~xf.done
    /\ xf.nodes < MaxNodes
    /\ IF xf.nodes = 0 THEN depth = 0 ELSE depth \in 1..(xf.depth + 1)
    /\ xf' = [xf EXCEPT
                !.nodes = @ + 1,
                !.depth = depth,
                !.colorMap = IF depth > DepthLimit \/ ~node.fill.solid
                               THEN @
                               ELSE MapSet(@, stripNonAlnum(toLowerCase(node.name)),
                                           fillHex(node.fill.color))]
    /\ UNCHANGED <<collected, fsVars, hookVars, cli, colorVars, nameVars, renderVars, plug>>

\* const actualColors = { scapiaGreen: '#b8f928', ... }
ActualColors ==
    { Stored(<<"color", <<"s", "c", "a", "p", "i", "a", "G", "r", "e", "e", "n">>>>,
             TokenObject(JsString(<<"#", "b", "8", "f", "9", "2", "8">>), "color")),
      Stored(<<"color", <<"s", "c", "a", "p", "i", "a", "R", "e", "d">>>>,
             TokenObject(JsString(<<"#", "f", "9", "4", "8", "2", "8">>), "color")),
      Stored(<<"color", <<"c", "r", "e", "a", "m">>>>,
             TokenObject(JsString(<<"#", "f", "a", "f", "9", "f", "7">>), "color")),
      Stored(<<"color", <<"d", "a", "r", "k", "T", "e", "x", "t">>>>,
             TokenObject(JsString(<<"#", "1", "1", "1", "1", "1", "1">>), "color")),
      Stored(<<"color", <<"w", "h", "i", "t", "e">>>>,
             TokenObject(JsString(<<"#", "f", "f", "f", "f", "f", "f">>), "color")),
      Stored(<<"color", <<"l", "i", "g", "h", "t", "G", "r", "a", "y">>>>,
             TokenObject(JsString(<<"#", "f", "3", "f", "3", "f", "3">>), "color")),
      Stored(<<"color", <<"m", "e", "d", "i", "u", "m", "G", "r", "a", "y">>>>,
             TokenObject(JsString(<<"#", "d", "9", "d", "9", "d", "9">>), "color")),
      Stored(<<"color", <<"d", "a", "r", "k", "G", "r", "a", "y">>>>,
             TokenObject(JsString(<<"#", "0", "f", "0", "f", "0", "f">>), "color")) }

\* EnhancedFigmaSync.extractTokensFromFile after the walk: each colour token
\* takes the colour findMatchingColor returns for its style name, if any;
\* then the colours of actualColors are assigned and the defaults for the
\* other categories
FinishEnhanced ==
    /\ xf.adapter = "EnhancedFigmaSync"
    /\ ~xf.done
    /\ xf' = [xf EXCEPT !.done = TRUE]
    /\ LET matched == {IF findMatchingColor(t.leaf.originalName, xf.colorMap) # Null
                         THEN [t EXCEPT !.leaf.value =
                                   JsString(findMatchingColor(t.leaf.originalName, xf.colorMap))]
                         ELSE t : t \in collected}
       IN collected' = {t \in matched : \A a \in ActualColors : a.path # t.path}
                         \cup ActualColors \cup DefaultSpacing \cup DefaultTypography
                         \cup DefaultBorderRadius \cup DefaultShadows
    /\ UNCHANGED <<fsVars, hookVars, cli, colorVars, nameVars, renderVars, plug>>

----------------------------------------------------------------------------
(* The Figma plugin: one 'export-to-github' message after another *)

\* the two copies of the plugin's code: part_000 checks the credentials
\* before it exports, part_001 does not
PluginVersions == {"part_000", "part_001"}

\* msg.githubToken, msg.repoOwner, msg.repoName: missing, empty or filled in
FieldValues == {"undefined", "", "filled"}

\* existingData.sha of an ok answer: the sha of the file, or no sha
\* (the path is not a file)
ShaValues == {"undefined", "3d21ec5"}

\* how the contents GET can end: fetch rejects, a status that is not ok, an
\* ok answer whose body is read, an ok answer whose json() rejects
GetOutcomes == {"throws", "not_ok", "ok", "bad_json"}

\* how the PUT can end: fetch rejects, a status that is not ok, an ok answer
\* with the commit in its body, an ok answer without it
PutOutcomes == {"throws", "not_ok", "ok", "ok_no_commit"}

\* let existingSha = null; ... if (existingResponse.ok) existingSha = existingData.sha
existingSha(outcome, sha) == IF outcome = "ok" THEN sha ELSE "null"

\* if (existingSha) commitData.sha = existingSha: the sha field of the PUT
\* body, "none" when the body has no such field
commitDataShaAlways(sha) == sha
commitDataSha(sha) == IF sha = "null" \/ Falsy(sha) THEN "none" ELSE sha

NoPlugin == [pc |-> "idle", version |-> "none",
             token |-> "undefined", owner |-> "undefined", name |-> "undefined",
             gets |-> 0, puts |-> 0, put |-> "none",
             got |-> "none", gotSha |-> "none", body |-> [content |-> Absent, sha |-> "none"],
             posted |-> <<>>]

\* figma.ui.onmessage for an 'export-to-github' message, up to the first
\* await of handleExportToGitHub (getLocalVariablesAsync)
ExportToGitHub(version, token, owner, name) ==
    /\ plug.pc = "idle"
    /\ plug' = IF version = "part_000" /\ (Falsy(token) \/ Falsy(owner) \/ Falsy(name))
                 THEN [plug EXCEPT !.version = version, !.token = token, !.owner = owner,
                                   !.name = name, !.pc = "done",
                                   !.posted = <<"export-error">>]
                 ELSE [plug EXCEPT !.version = version, !.token = token, !.owner = owner,
                                   !.name = name, !.pc = "variables",
                                   !.posted = <<"loading">>]
    /\ UNCHANGED <<fsVars, hookVars, cli, colorVars, nameVars, renderVars, xfVars>>

\* getLocalVariablesAsync settles: when it rejects the export ends with
\* export-error; otherwise the variables are transformed to the tokens c and
\* commitToGitHub sends the contents GET
VariablesReturn(ok, c) ==
    /\ plug.pc = "variables"
    /\ plug' = IF ok
                 THEN [plug EXCEPT !.pc = "get", !.gets = @ + 1, !.body.content = c]
                 ELSE [plug EXCEPT !.pc = "done", !.posted = Append(@, "export-error")]
    /\ UNCHANGED <<fsVars, hookVars, cli, colorVars, nameVars, renderVars, xfVars>>

\* the contents GET settles: whatever its outcome, commitToGitHub goes on to
\* build commitData and sends the PUT
GetReturns(outcome, sha) ==
    /\ plug.pc = "get"
    /\ plug' = [plug EXCEPT !.pc = "put", !.puts = @ + 1, !.got = outcome,
                            !.gotSha = IF outcome = "ok" THEN sha ELSE "none",
                            !.body.sha = commitDataSha(existingSha(outcome, sha))]
    /\ UNCHANGED <<fsVars, hookVars, cli, colorVars, nameVars, renderVars, xfVars>>

\* the PUT settles: export-success when the answer is ok and holds the
\* commit, export-error otherwise
PutReturns(outcome) ==
    /\ plug.pc = "put"
    /\ plug' = [plug EXCEPT !.pc = "done", !.put = outcome,
                            !.posted = Append(@, IF outcome = "ok" THEN "export-success"
                                                                   ELSE "export-error")]
    /\ UNCHANGED <<fsVars, hookVars, cli, colorVars, nameVars, renderVars, xfVars>>

\* the handler has returned; the UI may send the next message
NextMessage ==
    /\ plug.pc = "done"
    /\ plug' = NoPlugin
    /\ UNCHANGED <<fsVars, hookVars, cli, colorVars, nameVars, renderVars, xfVars>>

----------------------------------------------------------------------------
(* Initial states and the webhook specification *)

\* the working copy before anything runs: no token store and no generated file
\* yet, or a token store (content 1) with the files generated from it
FsInit ==
    /\ store \in {Absent, 1}
    /\ gen = [i \in FileIds |-> store]

HookIdle ==
    /\ pc = [h \in Handlers |-> "idle"]
    /\ event = [h \in Handlers |-> "unset"]
    /\ log = [h \in Handlers |-> <<>>]
    /\ resp = [h \in Handlers |-> NoResp]
    /\ child = [h \in Handlers |-> NoProc]

NameIdle ==
    /\ nameIn = <<>>
    /\ typeIn = "none"
    /\ catOut = NoCategory
    /\ nameOut = <<>>
    /\ valueIn = NoValue
    /\ valueOut = NotConverted

RenderIdle ==
    /\ parsed = <<>>
    /\ swift = NoSwift

TransformIdle ==
    /\ xf = NoTransform
    /\ collected = {}

RestIdle == NameIdle /\ RenderIdle /\ TransformIdle /\ plug = NoPlugin

Init ==
    /\ FsInit
    /\ HookIdle
    /\ cli = NoCli
    /\ colorIn = NoColor
    /\ colorOut = NotComputed
    /\ RestIdle

Next ==
    \/ \E h \in Handlers, e \in Events : Receive(h, e)
    \/ \E h \in Handlers, c \in {Absent} \cup Contents, ok \in BOOLEAN : PullExit(h, c, ok)
    \/ \E h \in Handlers, generated \in BOOLEAN : RegenLoad(h, generated)
    \/ \E h \in Handlers, written \in BOOLEAN : RegenWrite(h, written)

Spec == Init /\ [][Next]_vars

NextCli ==
    \/ \E kind \in Adapters, token \in EnvValues, key \in EnvValues :
          CliStartAdapter(kind, token, key)
    \/ \E outcome \in FetchOutcomes, c \in Contents : CliFetchReturn(outcome, c)
    \/ \E kind \in Renderers, generated \in BOOLEAN : CliStartRenderer(kind, generated)
    \/ \E written \in BOOLEAN : CliRenderWrite(written)
    \/ CliNextInvocation

SpecCli == Init /\ [][NextCli]_vars

InitColor ==
    /\ store = Absent
    /\ gen = [i \in FileIds |-> Absent]
    /\ HookIdle
    /\ cli = NoCli
    /\ colorIn \in ColorInputs
    /\ colorOut = NotComputed
    /\ RestIdle

NextColor == ConvertColor

SpecColor == InitColor /\ [][NextColor]_vars

\* nothing else runs while the pure functions are applied
OthersIdle ==
    /\ store = Absent
    /\ gen = [i \in FileIds |-> Absent]
    /\ HookIdle
    /\ cli = NoCli
    /\ colorIn = NoColor
    /\ colorOut = NotComputed

InitClassify ==
    /\ OthersIdle
    /\ RenderIdle
    /\ TransformIdle
    /\ plug = NoPlugin
    /\ nameIn \in Names
    /\ typeIn \in Types
    /\ catOut = NoCategory
    /\ nameOut = <<>>
    /\ valueIn = NoValue
    /\ valueOut = NotConverted

NextClassify == Classify \/ \E v \in RawValues : Convert(v)

SpecClassify == InitClassify /\ [][NextClassify]_vars

InitName ==
    /\ OthersIdle
    /\ RenderIdle
    /\ TransformIdle
    /\ plug = NoPlugin
    /\ nameIn \in Names
    /\ typeIn = "none"
    /\ catOut = NoCategory
    /\ nameOut = <<>>
    /\ valueIn = NoValue
    /\ valueOut = NotConverted

NextName == Sanitize \/ SanitizeAgain

SpecName == InitName /\ [][NextName]_vars

InitRender ==
    /\ OthersIdle
    /\ NameIdle
    /\ TransformIdle
    /\ plug = NoPlugin
    /\ parsed \in TokenStores(InsertionOrders)
    /\ swift = NoSwift

NextRender == \E kind \in Renderers : GenerateAll(kind)

SpecRender == InitRender /\ [][NextRender]_vars

InitTransform ==
    /\ OthersIdle
    /\ NameIdle
    /\ RenderIdle
    /\ TransformIdle
    /\ plug = NoPlugin

NextTransform ==
    \/ \E adapter \in VariableAdapters \cup {"FigmaFileSync", "EnhancedFigmaSync"},
          collections \in CollectionEnvs, modes \in ModeEnvs :
          StartTransform(adapter, collections, modes)
    \/ \E name \in VariableNames, type \in Types, collection \in CollectionNames \cup {<<>>} :
          NextVariable(name, type, collection)
    \/ \E value \in RawValues : ModeValue(value)
    \/ FinishVariables
    \/ \E name \in VariableNames, styleType \in StyleTypes : Style(name, styleType)
    \/ \E name \in VariableNames : Component(name)
    \/ FinishStyles
    \/ \E name \in VariableNames, styleType \in StyleTypes : EnhancedStyle(name, styleType)
    \/ \E node \in DocumentNodes, depth \in 0..MaxDepth : Node(node, depth)
    \/ FinishEnhanced

SpecTransform == InitTransform /\ [][NextTransform]_vars

InitPlugin ==
    /\ OthersIdle
    /\ NameIdle
    /\ RenderIdle
    /\ TransformIdle
    /\ plug = NoPlugin

NextPlugin ==
    \/ \E version \in PluginVersions, token \in FieldValues, owner \in FieldValues,
          name \in FieldValues : ExportToGitHub(version, token, owner, name)
    \/ \E ok \in BOOLEAN, c \in Contents : VariablesReturn(ok, c)
    \/ \E outcome \in GetOutcomes, sha \in ShaValues : GetReturns(outcome, sha)
    \/ \E outcome \in PutOutcomes : PutReturns(outcome)
    \/ NextMessage

SpecPlugin == InitPlugin /\ [][NextPlugin]_vars

----------------------------------------------------------------------------
(* Claims about the webhook listener *)

Failed(h)  == \E i \in 1..Len(log[h]) : log[h][i][2] = "exit1"
Started(h, cmd) == {i \in 1..Len(log[h]) : log[h][i] = <<cmd, "start">>}
Finished(h) == pc[h] = "done" /\ event[h] = TokensUpdated

\* C1: a tokens_updated notification whose two commands both succeed has run
\* the pull command once, then the regenerate command once, the regenerate
\* command starting only after the pull command ended with status 0, and has
\* answered 200 with success = true; while a handler runs, a regenerate start
\* in its log always directly follows the pull's successful end.
C1_PullThenRegenerateOnce ==
    \A h \in Handlers :
        /\ \A i \in 1..Len(log[h]) :
              log[h][i] = <<RegenCmd, "start">> =>
                  i > 1 /\ log[h][i - 1] = <<PullCmd, "exit0">>
        /\ (Finished(h) /\ ~Failed(h)) =>
              /\ log[h] = << <<PullCmd, "start">>, <<PullCmd, "exit0">>,
                             <<RegenCmd, "start">>, <<RegenCmd, "exit0">> >>
              /\ resp[h] = SuccessResp

C1_Witness ==
    \E h \in Handlers :
        /\ Finished(h) /\ ~Failed(h)
        /\ resp[h].status = 200 /\ resp[h].success = "true"
        /\ Len(log[h]) = 4

\* C2: a notification whose event is anything but tokens_updated (a missing
\* event included) starts no shell command, leaves the token store and the
\* generated files as they are and is answered 200 'Event ignored'.
C2_IgnoredState ==
    \A h \in Handlers :
        (pc[h] # "idle" /\ event[h] # TokensUpdated) =>
            /\ pc[h] = "done"
            /\ log[h] = <<>>
            /\ child[h] = NoProc
            /\ resp[h] = IgnoredResp

C2_IgnoredStep ==
    \A h \in Handlers :
        (pc[h] = "idle" /\ pc'[h] # "idle" /\ event'[h] # TokensUpdated) =>
            /\ UNCHANGED fsVars
            /\ log'[h] = <<>> /\ child'[h] = NoProc
            /\ resp'[h].status = 200 /\ resp'[h].text = "Event ignored"

C2_OtherEventsIgnored == [](C2_IgnoredState) /\ [][C2_IgnoredStep]_vars

C2_Witness ==
    \E h, g \in Handlers :
        /\ pc[h] = "done" /\ event[h] = "other" /\ resp[h] = IgnoredResp
        /\ pc[g] = "done" /\ event[g] = "undefined" /\ resp[g] = IgnoredResp

\* C3: once the pull command has failed the regenerate command is never
\* started; a handler that saw a command fail answers 500 with success = false
\* and that command's error message; success = true is never answered after a
\* failed command; and no command is started twice.
FailedCmd(h) == log[h][CHOOSE i \in 1..Len(log[h]) : log[h][i][2] = "exit1"][1]

C3_FailureIs500 ==
    \A h \in Handlers :
        /\ (\E i \in 1..Len(log[h]) : log[h][i] = <<PullCmd, "exit1">>)
              => Started(h, RegenCmd) = {}
        /\ Failed(h) =>
              /\ pc[h] = "done"
              /\ resp[h].status = 500 /\ resp[h].success = "false"
              /\ resp[h].text = ErrorMessage(FailedCmd(h))
        /\ resp[h].success = "true" => ~Failed(h)
        /\ Cardinality(Started(h, PullCmd)) <= 1
        /\ Cardinality(Started(h, RegenCmd)) <= 1

C3_Witness ==
    \E h, g \in Handlers :
        /\ Finished(h) /\ log[h] = << <<PullCmd, "start">>, <<PullCmd, "exit1">> >>
        /\ resp[h] = ErrorResp(PullCmd)
        /\ Finished(g) /\ log[g][Len(log[g])] = <<RegenCmd, "exit1">>
        /\ resp[g] = ErrorResp(RegenCmd)

\* C4: nothing serialises the pull-and-regenerate sequences: whatever the other
\* handlers are doing, an idle handler can take a tokens_updated notification,
\* a running pull can end and a running regenerate can take its next step.
C4_NoMutualExclusion ==
    \A h \in Handlers :
        /\ pc[h] = "idle" => ENABLED Receive(h, TokensUpdated)
        /\ pc[h] = "pull" => ENABLED (\E c \in Contents : PullExit(h, c, TRUE))
        /\ pc[h] = "regen" => ENABLED (RegenLoad(h, TRUE) \/ RegenWrite(h, TRUE))

\* one handler's regenerate command is in the middle of writing the generated
\* files while another handler's pull command runs on the same working copy
C4_Witness ==
    \E h, g \in Handlers :
        /\ h # g
        /\ pc[h] = "pull" /\ child[h].st = "run"
        /\ pc[g] = "regen" /\ child[g].st = "write" /\ child[g].next > 1

\* C5 as claimed: a sync is all-or-nothing. The working copy starts with its
\* generated files rendered from its token store; a notification handled alone
\* either replaces the store and every generated file or leaves all of them as
\* they were, so when it has ended the generated files are those of the store.
LoneRun(h) == Finished(h) /\ \A g \in Handlers \ {h} : pc[g] = "idle"
InSync == \A i \in FileIds : gen[i] = store

----------------------------------------------------------------------------
(* Claims about the command-line programs *)

CredentialsMissing == cli.token \in {"undefined", ""} \/ cli.key \in {"undefined", ""}

\* C6: an adapter constructed while FIGMA_ACCESS_TOKEN or FIGMA_FILE_KEY is
\* unset or empty ends with exit status 1, having issued no HTTP request and
\* not having written the token store.
C6_StartedWithoutCredentials ==
    (cli.kind \in Adapters /\ CredentialsMissing) =>
        /\ cli.pc = "exited" /\ cli.code = 1
        /\ cli.requests = 0 /\ cli.writes = 0

C6_StartStep ==
    (cli.pc = "idle" /\ cli'.kind \in Adapters
        /\ (cli'.token \in {"undefined", ""} \/ cli'.key \in {"undefined", ""}))
    => UNCHANGED fsVars

C6_MissingCredentialsExit == [](C6_StartedWithoutCredentials) /\ [][C6_StartStep]_vars

\* EnhancedFigmaSync was given a token and an empty file key, and has ended
C6_Witness ==
    /\ cli.kind = "EnhancedFigmaSync" /\ cli.pc = "exited" /\ cli.code = 1
    /\ cli.token = "figd_x" /\ cli.key = ""
    /\ cli.requests = 0

\* C7: an adapter whose HTTP request fails ends with exit status 1 without
\* writing the token store; the store is written at most once per run, only
\* in the step that follows a successful request and transformation, and a
\* step of an adapter that does not end so leaves the store as it is.
C7_FetchFailedState ==
    cli.kind \in Adapters =>
        /\ cli.fetched \in {"network_error", "non2xx"} =>
              (cli.pc = "exited" /\ cli.code = 1 /\ cli.writes = 0)
        /\ cli.writes <= 1
        /\ cli.writes = 1 => (cli.pc = "exited" /\ cli.fetched = "ok" /\ cli.requests = 1)

C7_StoreStep ==
    (cli'.kind \in Adapters /\ ~(cli.pc = "fetching" /\ cli'.fetched = "ok" /\ cli'.writes = 1))
    => store' = store

C7_FetchFailureWritesNothing == [](C7_FetchFailedState) /\ [][C7_StoreStep]_vars

C7_Witness ==
    /\ cli.kind = "FigmaSync" /\ cli.pc = "exited"
    /\ cli.fetched = "non2xx" /\ cli.code = 1 /\ cli.requests = 1
    /\ store = Absent

\* C8: a renderer constructed while the token store file does not exist ends
\* with exit status 1 and creates or overwrites no generated file.
C8_NoStoreState ==
    (cli.kind \in Renderers /\ store = Absent) =>
        /\ cli.pc = "exited" /\ cli.code = 1
        /\ Written(cli.proc) = {}

C8_NoStoreStep ==
    (cli.pc = "idle" /\ cli'.kind \in Renderers /\ store = Absent)
    => (cli'.pc = "exited" /\ cli'.code = 1 /\ UNCHANGED fsVars)

C8_MissingStoreExit == [](C8_NoStoreState) /\ [][C8_NoStoreStep]_vars

C8_Witness ==
    /\ cli.kind \in Renderers /\ store = Absent
    /\ cli.pc = "exited" /\ cli.code = 1
    /\ \A i \in FileIds : gen[i] = Absent

----------------------------------------------------------------------------
(* Claims about colorToHex *)

Converted == colorOut # NotComputed
Opaque(color) == color.type = "object" /\ (~color.hasA \/ color.a = AlphaDen)
Translucent(color) == color.type = "object" /\ color.hasA /\ color.a < AlphaDen

\* m is the channel k / ChannelDen scaled by 255 and rounded to the nearest
\* integer, a tie going up
IsRounded(m, k) ==
    /\ 2 * ChannelDen * m <= 2 * 255 * k + ChannelDen
    /\ 2 * 255 * k + ChannelDen < 2 * ChannelDen * (m + 1)

LowerHex == {"0", "1", "2", "3", "4", "5", "6", "7", "8", "9", "a", "b", "c", "d", "e", "f"}
HexValue(ch) == CHOOSE d \in 0..15 : Digits[d + 1] = ch
PairValue(text, i) == 16 * HexValue(text[i]) + HexValue(text[i + 1])

\* C9: for a COLOR value with channels in [0, 1] and alpha 1 or absent,
\* colorToHex returns '#' and six lower-case hex digits, each pair being the
\* channel scaled by 255 and rounded, in base 16 and padded to two digits;
\* black gives #000000 and white #ffffff.
C9_OpaqueIsHex ==
    (Converted /\ Opaque(colorIn)) =>
        /\ Len(colorOut) = 7
        /\ colorOut[1] = "#"
        /\ \A i \in 2..7 : colorOut[i] \in LowerHex
        /\ IsRounded(PairValue(colorOut, 2), colorIn.r)
        /\ IsRounded(PairValue(colorOut, 4), colorIn.g)
        /\ IsRounded(PairValue(colorOut, 6), colorIn.b)
        /\ (colorIn.r = 0 /\ colorIn.g = 0 /\ colorIn.b = 0)
              => colorOut = <<"#", "0", "0", "0", "0", "0", "0">>
        /\ (colorIn.r = ChannelDen /\ colorIn.g = ChannelDen /\ colorIn.b = ChannelDen)
              => colorOut = <<"#", "f", "f", "f", "f", "f", "f">>

\* a channel below 16/255 is padded, a tie (127.5) goes up, alpha is absent
C9_Witness ==
    /\ Converted /\ Opaque(colorIn) /\ ~colorIn.hasA
    /\ colorIn.r = 1 /\ colorIn.g * 2 = ChannelDen /\ colorIn.b = ChannelDen
    /\ colorOut = <<"#", "0", "d", "8", "0", "f", "f">>

DecimalDigit(ch) == CHOOSE d \in 0..9 : Digits[d + 1] = ch
RECURSIVE DecimalValue(_)
DecimalValue(text) ==
    IF Len(text) = 0 THEN 0
    ELSE 10 * DecimalValue(SubSeq(text, 1, Len(text) - 1)) + DecimalDigit(text[Len(text)])

IsByteText(text, k) ==
    /\ Len(text) \in 1..3
    /\ \A i \in 1..Len(text) : text[i] \in {"0", "1", "2", "3", "4", "5", "6", "7", "8", "9"}
    /\ Len(text) > 1 => text[1] # "0"
    /\ DecimalValue(text) \in 0..255
    /\ IsRounded(DecimalValue(text), k)

\* C10: for a COLOR value with alpha below 1, colorToHex returns
\* rgba(R, G, B, a) with R, G, B the channels scaled by 255 and rounded, written
\* as integers of 0..255, and a the alpha as given; it is no '#' string.
C10_TranslucentIsRgba ==
    (Converted /\ Translucent(colorIn)) =>
        /\ Len(colorOut) = 9
        /\ colorOut[1] = "rgba(" /\ colorOut[1] # "#"
        /\ IsByteText(colorOut[2], colorIn.r)
        /\ colorOut[3] = ", "
        /\ IsByteText(colorOut[4], colorIn.g)
        /\ colorOut[5] = ", "
        /\ IsByteText(colorOut[6], colorIn.b)
        /\ colorOut[7] = ", "
        /\ colorOut[8] = <<"number", colorIn.a, AlphaDen>>
        /\ colorOut[9] = ")"

C10_Witness ==
    /\ Converted /\ Translucent(colorIn)
    /\ colorIn.r = ChannelDen /\ colorIn.g = 1 /\ colorIn.b = 0 /\ 2 * colorIn.a = AlphaDen
    /\ colorOut = <<"rgba(", <<"2", "5", "5">>, ", ", <<"1", "3">>, ", ", <<"0">>, ", ",
                    <<"number", 1, 2>>, ")">>

----------------------------------------------------------------------------
(* Claims about variable names *)

Classified == catOut # NoCategory

\* C11: in both classifying adapters a FLOAT variable named "corner-radius-lg"
\* is put in borderRadius, a FLOAT variable named "space-lg" in spacing, and a
\* COLOR variable in color whatever its name is
C11_ClassifiedByNameAndType ==
    Classified =>
        /\ (nameIn = CornerRadiusLg /\ typeIn = "FLOAT")
              => (catOut.plugin = "borderRadius" /\ catOut.api = "borderRadius")
        /\ (nameIn = SpaceLg /\ typeIn = "FLOAT")
              => (catOut.plugin = "spacing" /\ catOut.api = "spacing")
        /\ typeIn = "COLOR" => (catOut.plugin = "color" /\ catOut.api = "color")

\* C12: each sanitizer is idempotent: sanitizing a sanitized name gives the
\* same name again
C12_SanitizeIdempotent ==
    Len(nameOut) = 2 =>
        /\ nameOut[2].plugin = nameOut[1].plugin
        /\ nameOut[2].file = nameOut[1].file
        /\ nameOut[2].enhanced = nameOut[1].enhanced

\* C16: the plugin and the Variables-API adapter choose the same category for
\* every variable and convert every value to the same result, whatever the
\* variable's type is
C16_SameRules ==
    /\ Classified => catOut.plugin = catOut.api
    /\ valueOut # NotConverted => valueOut.plugin = valueOut.api

----------------------------------------------------------------------------
(* Claims about the renderers' text *)

Rendered == swift.kind # "none"
RenderedAll == Rendered /\ ~swift.threw

\* the store has no token for the file's category: no key or an empty mapping
EmptyCategory(i) == EntriesOf(parsed, CategoryOf(Files[i])) = <<>>

IsDeclaration(line) == line # <<>> /\ Head(line) = "    static let "

\* the line declares the token name, first character lower-cased
Declares(line, name) ==
    /\ Len(line) > Len(name) + 1
    /\ SubSeq(line, 1, Len(name) + 1) = <<"    static let ">> \o toSwiftName(name)
    /\ line[Len(name) + 2] \in {" = Color(hex: \"", " = ", ": CGFloat = "}

\* the file is its header, then lines without a declaration, then the opening
\* line of its block and at once the closing brace
IsEmptyBlock(kind, i, lines) ==
    /\ Len(lines) >= Len(Header(kind, Files[i])) + 2
    /\ SubSeq(lines, 1, Len(Header(kind, Files[i]))) = Header(kind, Files[i])
    /\ lines[Len(lines) - 1] = Opening(Files[i])
    /\ lines[Len(lines)] = <<"}">>
    /\ \A k \in 1..Len(lines) : ~IsDeclaration(lines[k])

\* C13: a category that is empty or has no key does not make the renderer
\* fail (a run in which every category is empty always completes), and its
\* file is the header and an empty declaration block
C13_EmptyCategoryEmptyBlock ==
    Rendered =>
        /\ (\A i \in FileIds : EmptyCategory(i)) => ~swift.threw
        /\ ~swift.threw =>
              \A i \in FileIds :
                  EmptyCategory(i) => IsEmptyBlock(swift.kind, i, swift.files[i])

C13_Witness ==
    /\ RenderedAll
    /\ ~parsed[CategoryIndex("color")].present
    /\ parsed[CategoryIndex("shadow")] = Mapping(<<>>)
    /\ parsed[CategoryIndex("spacing")].entries # <<>>

\* the store {color: {primary: {value: "#007AFF"}}, spacing: {small: {value: 8}}}
IsScenarioStore ==
    /\ parsed[CategoryIndex("color")] = Mapping(<<Entry(Primary, JsString(Hex007AFF))>>)
    /\ parsed[CategoryIndex("spacing")] = Mapping(<<Entry(Small, JsNumber(8))>>)
    /\ ~parsed[CategoryIndex("typography")].present
    /\ ~parsed[CategoryIndex("borderRadius")].present
    /\ ~parsed[CategoryIndex("shadow")].present

HasLine(lines, line) == \E k \in 1..Len(lines) : lines[k] = line

\* C14: from that store the run completes, Colors.swift has the line
\*     static let primary = Color(hex: "#007AFF")
\* and Spacing.swift the line
\*     static let small: CGFloat = 8
C14_ScenarioRendered ==
    (Rendered /\ IsScenarioStore) =>
        /\ ~swift.threw
        /\ HasLine(swift.files[1],
                   <<"    static let ", "p", "r", "i", "m", "a", "r", "y",
                     " = Color(hex: \"", "#", "0", "0", "7", "A", "F", "F", "\")">>)
        /\ HasLine(swift.files[3],
                   <<"    static let ", "s", "m", "a", "l", "l", ": CGFloat = ", "8">>)

C14_Witness == Rendered /\ IsScenarioStore /\ swift.kind = "SwiftTokenGenerator"

\* a file of the run declares the token
DeclaredSomewhere(e) ==
    \E i \in FileIds : \E k \in 1..Len(swift.files[i]) : Declares(swift.files[i][k], e.name)

\* C17: after a run, every token of each of the six categories of the store
\* is declared in a generated file
C17_EveryCategoryRendered ==
    RenderedAll =>
        \A c \in 1..Len(Categories) :
            \A n \in 1..Len(parsed[c].entries) : DeclaredSomewhere(parsed[c].entries[n])

\* the declaration lines of a generated file, in the order of the file
DeclarationLines(i) == SelectSeq(swift.files[i], IsDeclaration)

\* the identifier a declaration line declares: the characters between
\* `static let ` and the piece that follows the name
IdentifierOf(line) ==
    LET stop == CHOOSE k \in 2..Len(line) :
                    /\ line[k] \in {" = Color(hex: \"", " = ", ": CGFloat = "}
                    /\ \A j \in 2..(k - 1) :
                          line[j] \notin {" = Color(hex: \"", " = ", ": CGFloat = "}
    IN SubSeq(line, 2, stop - 1)

\* the identifier is the name with only its first character lower-cased
FirstLowered(name, id) ==
    /\ Len(id) = Len(name)
    /\ \A j \in 2..Len(name) : id[j] = name[j]
    /\ name # <<>> => id[1] = toLowerCase(<<name[1]>>)[1]

\* C22 as stated: each rendered file has one declaration line per token of
\* its category, the k-th line declaring the k-th token inserted, and the
\* identifier is the token name with only its first character lower-cased
C22_InsertionOrder ==
    RenderedAll =>
        \A i \in FileIds :
            LET es == EntriesOf(parsed, CategoryOf(Files[i]))
                ds == DeclarationLines(i)
            IN /\ Len(ds) = Len(es)
               /\ \A k \in 1..Len(es) : FirstLowered(es[k].name, IdentifierOf(ds[k]))

\* the token a comes before the token b when the mapping is enumerated
EnumeratedBefore(es, a, b) ==
    IF IsArrayIndex(es[a].name)
      THEN ~IsArrayIndex(es[b].name) \/ IndexValue(es[a].name) < IndexValue(es[b].name)
      ELSE ~IsArrayIndex(es[b].name) /\ a < b

\* C22, amended: each rendered file has one declaration line per token of its
\* category, the identifier is the token name with only its first character
\* lower-cased, and the lines follow the enumeration order of the mapping:
\* the names that are array indices first, in ascending numeric order, then
\* the other names in insertion order
C22_EnumerationOrder ==
    RenderedAll =>
        \A i \in FileIds :
            LET es == EntriesOf(parsed, CategoryOf(Files[i]))
                ds == DeclarationLines(i)
            IN /\ Len(ds) = Len(es)
               /\ \E p \in Permutations(1..Len(es)) :
                     /\ \A k \in 1..Len(es) : FirstLowered(es[p[k]].name, IdentifierOf(ds[k]))
                     /\ \A k, l \in 1..Len(es) : k < l => EnumeratedBefore(es, p[k], p[l])

\* a token named 8 inserted after a token named Large is declared before it
C22_Witness ==
    /\ RenderedAll
    /\ EntriesOf(parsed, "spacing") = <<Entry(<<"L", "a", "r", "g", "e">>, JsNumber(24)),
                                        Entry(<<"8">>, JsNumber(8))>>
    /\ DeclarationLines(3) = << <<"    static let ", "8", ": CGFloat = ", "8">>,
                                <<"    static let ", "l", "a", "r", "g", "e", ": CGFloat = ", "2", "4">> >>

\* the first position of the piece in the line, 0 when the line has no such piece
PieceAt(line, piece) ==
    IF \E k \in 1..Len(line) : line[k] = piece
      THEN CHOOSE k \in 1..Len(line) :
               line[k] = piece /\ \A j \in 1..(k - 1) : line[j] # piece
      ELSE 0

\* what a declaration line puts after the identifier
ExpressionOf(line) == SubSeq(line, Len(IdentifierOf(line)) + 2, Len(line))

\* the text between the piece that opens the argument and the next piece
\* that is punctuation of the Font expression
ArgumentAfter(expr, opening) ==
    LET from == PieceAt(expr, opening) + 1
        to == CHOOSE k \in from..Len(expr) :
                  /\ expr[k] \in {", weight: .", ")"}
                  /\ \A j \in from..(k - 1) : expr[j] \notin {", weight: .", ")"}
    IN SubSeq(expr, from, to - 1)

\* the declaration of a typography token in Typography.swift
TypographyLine(e) ==
    CHOOSE line \in {DeclarationLines(2)[k] : k \in 1..Len(DeclarationLines(2))} :
        FirstLowered(e.name, IdentifierOf(line))

\* C23: a typography token whose value is an object is rendered as
\* Font.system(size: fontSize), with a weight argument exactly when fontWeight
\* is present and a .lineSpacing(lineHeight - fontSize) suffix exactly when
\* lineHeight is present and not zero; a scalar value is rendered as
\* Font.system(size: value) with neither
C23_FontExpression ==
    RenderedAll =>
        \A n \in 1..Len(EntriesOf(parsed, "typography")) :
            LET e == EntriesOf(parsed, "typography")[n]
                expr == ExpressionOf(TypographyLine(e))
            IN /\ expr[1] = " = "
               /\ expr[2] = "Font.system(size: "
               /\ IF e.value.type = "object"
                    THEN /\ ArgumentAfter(expr, "Font.system(size: ") = NumberText(e.value.fontSize)
                         /\ PieceAt(expr, ", weight: .") # 0 <=> e.value.fontWeight # <<>>
                         /\ PieceAt(expr, ".lineSpacing(") # 0 <=> e.value.lineHeight # 0
                         /\ e.value.lineHeight # 0 =>
                               SubSeq(expr, PieceAt(expr, ".lineSpacing("), Len(expr))
                                 = <<".lineSpacing(">>
                                     \o NumberText(e.value.lineHeight - e.value.fontSize)
                                     \o <<")">>
                         /\ e.value.lineHeight = 0 => expr[Len(expr)] = ")"
                    ELSE expr = <<" = ", "Font.system(size: ">> \o TemplateText(e.value) \o <<")">>

\* a token with a weight and a line height next to one with a line height
\* below its font size
C23_Witness ==
    /\ RenderedAll
    /\ EntriesOf(parsed, "typography")
         = <<Entry(<<"H", "e", "a", "d", "i", "n", "g">>, FontObject(24, <<"B", "o", "l", "d">>, 32)),
             Entry(<<"c", "a", "p", "t", "i", "o", "n">>, FontObject(16, <<>>, 12))>>
    /\ HasLine(swift.files[2],
               <<"    static let ", "h", "e", "a", "d", "i", "n", "g", " = ",
                 "Font.system(size: ", "2", "4", ", weight: .", "b", "o", "l", "d", ")",
                 ".lineSpacing(", "8", ")">>)
    /\ HasLine(swift.files[2],
               <<"    static let ", "c", "a", "p", "t", "i", "o", "n", " = ",
                 "Font.system(size: ", "1", "6", ")", ".lineSpacing(", "-", "4", ")">>)

\* the declaration of a colour token in Colors.swift
ColorLine(e) ==
    CHOOSE line \in {DeclarationLines(1)[k] : k \in 1..Len(DeclarationLines(1))} :
        FirstLowered(e.name, IdentifierOf(line))

\* the string a colour declaration wraps: what stands between
\* Color(hex: " and ")
Wrapped(line) == SubSeq(ExpressionOf(line), 2, Len(ExpressionOf(line)) - 1)

\* the value colorToHex gives a COLOR variable whose alpha is below 1
IsRgbaText(s) == s # <<>> /\ Head(s) = "rgba("

\* C28: every colour declaration wraps a string that begins with '#': a
\* stored value that begins with '#' is wrapped as it is, any other stored
\* string with '#' put before it, so the rgba(...) string stored for a colour
\* with alpha below 1 is declared as Color(hex: "#rgba(...)")
C28_HashPrefixed ==
    RenderedAll =>
        \A n \in 1..Len(EntriesOf(parsed, "color")) :
            LET e == EntriesOf(parsed, "color")[n]
                line == ColorLine(e)
                stored == e.value.str
            IN /\ ExpressionOf(line)[1] = " = Color(hex: \""
               /\ ExpressionOf(line)[Len(ExpressionOf(line))] = "\")"
               /\ Head(Wrapped(line)) = "#"
               /\ (stored # <<>> /\ Head(stored) = "#") => Wrapped(line) = stored
               /\ (stored = <<>> \/ Head(stored) # "#") => Wrapped(line) = <<"#">> \o stored
               /\ IsRgbaText(stored) => (Wrapped(line)[1] = "#" /\ Wrapped(line)[2] = "rgba(")

\* the store holds the rgba(...) string of a colour with alpha 0 next to a
\* value without '#', and both are declared
C28_Witness ==
    /\ RenderedAll
    /\ Len(EntriesOf(parsed, "color")) = 2
    /\ IsRgbaText(EntriesOf(parsed, "color")[1].value.str)
    /\ EntriesOf(parsed, "color")[2].value = JsString(<<"f", "f", "0", "0", "0", "0">>)
    /\ Wrapped(ColorLine(EntriesOf(parsed, "color")[1]))[2] = "rgba("
    /\ Wrapped(ColorLine(EntriesOf(parsed, "color")[2])) = <<"#", "f", "f", "0", "0", "0", "0">>

\* the other of the two renderers
OtherRenderer(kind) == CHOOSE k \in Renderers : k # kind

\* the two header lines in which the renderers' files may differ
IsGeneratedFromLine(line) ==
    \/ line = <<"//  Generated from Figma Variables via Plugin">>
    \/ line = <<"//  Generated from Figma Variables via Style Dictionary">>
IsLastUpdatedLine(line) == Len(line) = 2 /\ line[1] = "//  Last updated: "

\* two files of lines that are the same line by line, the 'Generated from'
\* line and the timestamp line aside
SameButHeader(a, b) ==
    /\ Len(a) = Len(b)
    /\ \A j \in 1..Len(a) :
         a[j] # b[j] =>
           \/ IsGeneratedFromLine(a[j]) /\ IsGeneratedFromLine(b[j])
           \/ IsLastUpdatedLine(a[j]) /\ IsLastUpdatedLine(b[j])

\* the lines of a file from the line that opens its declaration block on
DeclarationBlock(file, lines) ==
    LET open == CHOOSE j \in 1..Len(lines) : lines[j] = Opening(file)
    IN SubSeq(lines, open, Len(lines))

----------------------------------------------------------------------------
(* Claims about the adapters' transformations *)

\* what the renderer reads as token.value for an entry of a category: the
\* value field of the object under the token name, undefined when the entry
\* is not such an object
ValueRead(t) == IF Len(t.path) = 2 /\ t.leaf.object THEN t.leaf.value ELSE JsUndefined

\* generateColors does not throw on the entry
Accepted(t) == t.path[1] = "color" => ~Throws("Colors.swift", Entry(t.path[2], ValueRead(t)))

\* C15: the store an adapter returns maps, under each category, token names
\* directly to objects with a value and a type field, and the renderer
\* accepts every entry of it
C15_SameShape ==
    xf.done =>
        \A t \in collected :
            /\ Len(t.path) = 2
            /\ t.leaf.object
            /\ t.leaf.type = t.path[1]
            /\ Accepted(t)

HandledValue == xf'.last # xf.last

\* the leaf the current variable's value is stored under
RecordedAs(tokens, cur, converted) ==
    \E t \in tokens :
        /\ t.path[1] = cur.category
        /\ t.path[Len(t.path)] = cur.key
        /\ t.leaf.value = converted

\* a null conversion (of a value of the variable the loop is still at) comes
\* from a COLOR value that is no object, from a type FigmaSync does not know,
\* or from a value that is itself missing
C20_NullCases ==
    (xf.last.converted = JsNull /\ xf.last.variable = xf.seen) =>
        \/ xf.cur.type = "COLOR" /\ xf.last.value.type # "object"
        \/ xf.adapter = "FigmaSync" /\ xf.cur.type \notin {"COLOR", "FLOAT", "STRING", "BOOLEAN"}
        \/ xf.last.value = JsNull

C20_ValueStep ==
    HandledValue =>
        /\ xf'.last.converted = JsNull => collected' = collected
        /\ xf'.last.converted \notin {JsNull, NoValue}
              => RecordedAs(collected', xf.cur, xf'.last.converted)

\* C20: a mode value whose conversion is null adds no token and leaves the
\* tokens collected so far as they were; a mode value whose conversion is not
\* null is recorded
C20_NullSkipped == [](C20_NullCases) /\ [][C20_ValueStep]_vars

C20_Witness ==
    /\ xf.adapter = "plugin"
    /\ xf.cur.type = "COLOR"
    /\ xf.last.value = JsNull
    /\ xf.last.converted = JsNull
    /\ collected # {}

\* the tokens of the plugin's store
PluginStore == IF xf.adapter = "plugin" THEN collected ELSE {}

\* a token sits directly under one of the six categories, its type field is
\* that category, and the category is the one its variable's name and
\* resolved type give
C21_OneCategory ==
    /\ \A t \in PluginStore :
          /\ Len(t.path) = 2
          /\ \E i \in 1..Len(Categories) : Categories[i] = t.path[1]
          /\ t.leaf.type = t.path[1]
          /\ t.path[1] = determineTokenCategory(t.leaf.originalName, t.leaf.resolvedType)
    /\ \A t, u \in PluginStore :
          /\ t.path = u.path => t = u
          /\ t.leaf.variableId = u.leaf.variableId => t.path = u.path
    /\ (xf.adapter = "plugin" /\ xf.cur # NoVariable)
          => xf.cur.category = determineTokenCategory(xf.cur.name, xf.cur.type)

\* handling a mode value leaves the variable's category and key as they were
C21_ModeStep ==
    (xf.adapter = "plugin" /\ HandledValue) =>
        /\ xf'.cur = xf.cur
        /\ \A t \in collected' \ collected :
              t.path = <<xf.cur.category, xf.cur.key>> /\ t.leaf.variableId = xf.seen

\* C21: in the plugin's store each token is held under exactly one category,
\* its type field is the key of that category, and the category is computed
\* once from the variable's name and resolved type before the loop over its
\* mode values, which does not change it
C21_CategoryFixedAtIngestion == [](C21_OneCategory) /\ [][C21_ModeStep]_vars

\* a variable whose two mode values were both recorded
C21_Witness ==
    /\ xf.adapter = "plugin"
    /\ xf.done
    /\ xf.last.mode = 2
    /\ xf.last.converted # JsNull
    /\ \E t \in collected : /\ t.leaf.variableId = xf.seen
                            /\ t.leaf.resolvedType = "FLOAT"
                            /\ t.leaf.type = "spacing"

\* the five categories the plugin's classifier names
PluginCategories == {"color", "spacing", "borderRadius", "opacity", "typography"}

\* whatever variable the plugin meets first, of any name and any resolved
\* type, the types it does not know included, determineTokenCategory returns
\* one of the five for it
C30_Total ==
    (xf.adapter = "plugin" /\ xf.seen = 0) =>
        \A name \in Names, type \in Types :
            /\ determineTokenCategory(name, type) \in PluginCategories
            /\ determineTokenCategory(name, type) # "shadow"
            /\ \E i \in 1..Len(Categories) : Categories[i] = determineTokenCategory(name, type)

\* every token of the plugin's store sits under one of the five, none under
\* shadow, and the variable at hand is to be stored under one of the five
C30_ShadowEmpty ==
    /\ \A t \in PluginStore : t.path[1] \in PluginCategories /\ t.path[1] # "shadow"
    /\ (xf.adapter = "plugin" /\ xf.cur # NoVariable) => xf.cur.category \in PluginCategories

\* tokens[category][name] = ... is an assignment into one of the six mappings
\* the store was created with
C30_AssignStep ==
    (xf.adapter = "plugin" /\ HandledValue) =>
        \A t \in collected' \ collected :
            /\ Len(t.path) = 2
            /\ \E i \in 1..Len(Categories) : Categories[i] = t.path[1]
            /\ t.path[1] \in PluginCategories

\* C30: the plugin's determineTokenCategory is total and returns color,
\* spacing, borderRadius, opacity or typography, never shadow and nothing
\* outside the six categories of the store; every assignment of
\* transformVariablesToTokens goes into an existing category mapping and the
\* shadow category of the plugin's store stays empty
C30_NeverShadow == [](C30_Total /\ C30_ShadowEmpty) /\ [][C30_AssignStep]_vars

\* the plugin stored the value of a variable of a type it does not know, under
\* spacing, and finished with nothing under shadow
C30_Witness ==
    /\ xf.adapter = "plugin"
    /\ xf.done
    /\ \E t \in collected : /\ t.leaf.resolvedType \in {"BOOLEAN", "UNKNOWN"}
                            /\ t.path[1] = "spacing"
    /\ \A t \in collected : t.path[1] # "shadow"

\* the entries of the comma-separated list, the blanks around each taken off
ListEntries(env) ==
    LET parts == split(env.text, ",")
    IN {trim(parts[i]) : i \in 1..Len(parts)}

\* the name is one of the entries, which the variable being set made a list
ListedIn(env, entries, name) == env.set /\ name # <<>> /\ name \in entries

\* the variable is unset or its list has no entry other than blanks
NothingListedIn(env, entries) == env.set => entries \subseteq {<<>>}

\* a filter lets a name pass when nothing is listed or the name is listed
PassesIn(env, entries, name) == NothingListedIn(env, entries) \/ ListedIn(env, entries, name)

\* the name is an entry of the comma-separated list, blanks around it aside
Listed(env, name) == ListedIn(env, ListEntries(env), name)
NothingListed(env) == NothingListedIn(env, ListEntries(env))
Passes(env, name) == PassesIn(env, ListEntries(env), name)

C24_FilterState ==
    xf.adapter = "FigmaSync" =>
        LET cs == ListEntries(xf.env.collections)
            ms == ListEntries(xf.env.modes)
            passing == {dashWhitespace(toLowerCase(c)) :
                          c \in {c \in CollectionNames : PassesIn(xf.env.collections, cs, c)}}
            passingModes == {dashWhitespace(toLowerCase(ModeNames[i])) :
                               i \in {i \in 1..Len(ModeNames) :
                                        PassesIn(xf.env.modes, ms, ModeNames[i])}}
        IN /\ \A c \in CollectionNames \cup xf.collections :
                 c \in xf.collections <=> ListedIn(xf.env.collections, cs, c)
           /\ \A m \in {ModeNames[i] : i \in 1..Len(ModeNames)} \cup xf.modes :
                 m \in xf.modes <=> ListedIn(xf.env.modes, ms, m)
           /\ xf.cur # NoVariable =>
                 (xf.cur.skipped <=> ~PassesIn(xf.env.collections, cs, xf.cur.collection))
           /\ \A t \in collected : t.path[2] \in passing /\ t.path[3] \in passingModes

C24_FilterStep ==
    (xf.adapter = "FigmaSync" /\ HandledValue) =>
        LET modeName == ModeNames[xf'.last.mode]
            collectionKey == dashWhitespace(toLowerCase(xf.cur.collection))
            modeKey == dashWhitespace(toLowerCase(modeName))
        IN /\ Passes(xf.env.collections, xf.cur.collection)
           /\ xf'.last.filtered <=> ~Passes(xf.env.modes, modeName)
           /\ xf'.last.filtered => collected' = collected
           /\ (~xf'.last.filtered /\ xf'.last.converted # JsNull) =>
                 \E t \in collected' :
                     /\ t.path[2] = collectionKey
                     /\ t.path[3] = modeKey
                     /\ t.path[4] = xf.cur.key
                     /\ t.leaf.value = xf'.last.converted

\* C24: FigmaSync keeps only the variables whose collection FIGMA_COLLECTIONS
\* lists and only the mode values whose mode FIGMA_MODES lists; a list that
\* is unset or empty leaves nothing out; the entries of a list are trimmed
\* before they are compared and empty entries are dropped
C24_Filters == [](C24_FilterState) /\ [][C24_FilterStep]_vars

\* FIGMA_COLLECTIONS " Primitives , ," and FIGMA_MODES " Dark": the value for
\* Light was left out and the value for Dark of a Primitives variable is stored
C24_Witness ==
    /\ xf.adapter = "FigmaSync"
    /\ xf.env.collections = Env(<<" ">> \o Primitives \o <<" ", ",", " ", ",">>)
    /\ xf.env.modes = Env(<<" ">> \o Dark)
    /\ xf.cur.collection = Primitives
    /\ xf.last.mode = 2
    /\ ~xf.last.filtered
    /\ \E t \in collected : t.path[2] = toLowerCase(Primitives) /\ t.path[3] = toLowerCase(Dark)

\* the tokens EnhancedFigmaSync made from styles
StyleTokens == {t \in collected : "styleId" \in DOMAIN t.leaf}

\* the style name in the lookup's spelling: lower case, letters and digits only
Normalized(name) == stripNonAlnum(toLowerCase(name))

\* the key matches the name exactly, or one contains the other
ExactKey(map, i, name) == map[i].key = Normalized(name)
PartialKey(map, i, name) ==
    \/ includes(Normalized(name), map[i].key)
    \/ includes(map[i].key, Normalized(name))

\* what the claim says findMatchingColor returns for the name
ClaimedMatch(map, name, hex) ==
    IF \E i \in 1..Len(map) : ExactKey(map, i, name)
      THEN \E i \in 1..Len(map) : ExactKey(map, i, name) /\ hex = map[i].hex
      ELSE IF \E i \in 1..Len(map) : PartialKey(map, i, name)
        THEN \E i \in 1..Len(map) :
                 /\ PartialKey(map, i, name)
                 /\ \A j \in 1..(i - 1) : ~PartialKey(map, j, name)
                 /\ hex = map[i].hex
        ELSE hex = Null

\* after the run each style token holds the colour the lookup gives for its
\* style name, and the placeholder #007AFF exactly when no key matches
C25_Matched ==
    (xf.adapter = "EnhancedFigmaSync" /\ xf.done) =>
        \A t \in StyleTokens :
            /\ ClaimedMatch(xf.colorMap, t.leaf.originalName,
                            findMatchingColor(t.leaf.originalName, xf.colorMap))
            /\ IF \E i \in 1..Len(xf.colorMap) : PartialKey(xf.colorMap, i, t.leaf.originalName)
                 THEN ClaimedMatch(xf.colorMap, t.leaf.originalName, t.leaf.value.str)
                 ELSE t.leaf.value = JsString(Hex007AFF)

\* a node deeper than level 3 leaves the lookup as it was; a node of level 0
\* to 3 with a solid fill puts its colour under its name
C25_NodeStep ==
    (xf.adapter = "EnhancedFigmaSync" /\ xf'.nodes = xf.nodes + 1) =>
        /\ xf'.depth > 3 => xf'.colorMap = xf.colorMap
        /\ \A i \in 1..Len(xf'.colorMap) :
              (i > Len(xf.colorMap) \/ xf'.colorMap[i] # xf.colorMap[i]) =>
                  /\ xf'.depth \in 0..3
                  /\ xf'.colorMap[i].key \in {Normalized(n) : n \in NodeNames}
        /\ Len(xf'.colorMap) >= Len(xf.colorMap)

\* C25: only nodes of depth 0 to 3 contribute to the name-to-hex lookup;
\* findMatchingColor returns the value of the key equal to the normalized
\* style name when there is one, otherwise the value of the first key, in
\* insertion order, that contains or is contained in that name, and null
\* exactly when no key matches
C25_DepthAndMatch == [](C25_Matched) /\ [][C25_NodeStep]_vars

\* the lookup holds lg before colorlg, with different colours, and the style
\* Color-lg took the colour of colorlg; a node of level 4 was passed
C25_Witness ==
    /\ xf.adapter = "EnhancedFigmaSync"
    /\ xf.done
    /\ xf.depth = 4
    /\ xf.colorMap = << [key |-> Lg, hex |-> <<"#", "f", "f", "0", "0", "0", "0">>],
                        [key |-> <<"c", "o", "l", "o", "r", "l", "g">>,
                         hex |-> <<"#", "0", "0", "0", "0", "f", "f">>] >>
    /\ \E t \in StyleTokens :
          /\ t.leaf.originalName = ColorLg
          /\ t.leaf.value = JsString(<<"#", "0", "0", "0", "0", "f", "f">>)

\* the place of the current variable's token: its category and its sanitized name
TokenPath == <<xf.cur.category, sanitizeVariableName(xf.cur.name)>>

\* a mode value whose conversion is not null becomes the token at that place,
\* whatever was there, and no other token changes; a null conversion changes
\* nothing
C27_AssignStep ==
    (xf.adapter = "plugin" /\ HandledValue) =>
        IF xf'.last.converted # JsNull
          THEN /\ \E t \in collected' :
                     /\ t.path = TokenPath
                     /\ t.leaf.value = xf'.last.converted
                     /\ t.leaf.variableId = xf.seen
                     /\ t.leaf.originalName = xf.cur.name
               /\ {t \in collected' : t.path # TokenPath} = {t \in collected : t.path # TokenPath}
               /\ Cardinality({t \in collected' : t.path = TokenPath}) = 1
          ELSE collected' = collected

\* the store never has more tokens than variables were met, and a token is
\* found by its category and name alone
C27_KeyedByName ==
    xf.adapter = "plugin" =>
        /\ Cardinality(collected) <= xf.seen
        /\ \A t, u \in collected : t.path = u.path => t = u
        /\ \A t \in collected :
              /\ Len(t.path) = 2
              /\ t.path[2] = sanitizeVariableName(t.leaf.originalName)

\* C27: the plugin keys a token by the sanitized variable name only: of a
\* variable's mode values the last one whose conversion is not null is the
\* one stored, and a variable whose category and sanitized name are those of
\* an earlier variable replaces that variable's token, so the store can hold
\* fewer tokens than there are variables
C27_LastAssignmentWins == [](C27_KeyedByName) /\ [][C27_AssignStep]_vars

\* Color-lg and lg, both COLOR, are both stored under color.lg: the second
\* replaced the first, and its second mode value, null, left the first in place
C27_Witness ==
    /\ xf.adapter = "plugin"
    /\ xf.seen = 2
    /\ xf.cur.name = Lg
    /\ xf.last.mode = 2
    /\ xf.last.converted = JsNull
    /\ xf.last.replaced = 1
    /\ Cardinality(collected) = 1
    /\ \E t \in collected :
          /\ t.path = <<"color", Lg>>
          /\ t.leaf.variableId = 2
          /\ t.leaf.value # JsNull

----------------------------------------------------------------------------
(* Claims about the token store as the adapters leave it *)

SucceededAdapter(c) == c.kind \in Adapters /\ c.pc = "exited" /\ c.code = 0

\* when an adapter run has succeeded the store is that run's tokens
C19_StoreIsLastOutput == SucceededAdapter(cli) => store = cli.output

\* and the store changes in no other step: whatever it held before is gone
\* once a run succeeds, and stays until the next run succeeds
C19_OverwriteStep ==
    store' # store => (SucceededAdapter(cli') /\ cli.pc = "fetching" /\ store' = cli'.output)

\* C19: the token store is overwritten as a whole, never merged: after any
\* sequence of adapter runs it holds exactly the tokens of the latest run
\* that succeeded
C19_FullyOverwritten == [](C19_StoreIsLastOutput) /\ [][C19_OverwriteStep]_vars

\* a run succeeded over a store that held other tokens (the generated files
\* still show them)
C19_Witness ==
    /\ SucceededAdapter(cli)
    /\ cli.output = 2
    /\ store = 2
    /\ \A i \in FileIds : gen[i] = 1

----------------------------------------------------------------------------
(* Claims about the plugin *)

TerminalMessages == SelectSeq(plug.posted, LAMBDA m : m \in {"export-success", "export-error"})

\* msg.githubToken, msg.repoOwner or msg.repoName is missing
CredentialMissing == Falsy(plug.token) \/ Falsy(plug.owner) \/ Falsy(plug.name)

\* C26: a handled 'export-to-github' message ends with exactly one terminal
\* message; export-success only after the PUT returned ok, export-error when
\* reading the variables or the PUT failed or the PUT's answer was not ok;
\* and with a credential missing, export-error without reading the variables
\* and without any GitHub request
C26_OneTerminalMessage ==
    /\ Len(TerminalMessages) <= 1
    /\ plug.pc = "done" =>
          /\ Len(TerminalMessages) = 1
          /\ TerminalMessages = <<"export-success">> => plug.put \in {"ok", "ok_no_commit"}
          /\ plug.put \in {"throws", "not_ok"} => TerminalMessages = <<"export-error">>
          /\ (plug.gets = 0 /\ plug.puts = 0) => TerminalMessages = <<"export-error">>
    /\ (plug.pc # "idle" /\ CredentialMissing) =>
          /\ plug.posted = <<"export-error">>
          /\ plug.gets = 0
          /\ plug.puts = 0

====
